---- MODULE Spec2Model ----
(***************************************************************************)
(* The data-forwarding admin screens of the ThingsPanel frontend: the rule *)
(* list (data-forward/index.vue), the rule editor modal with its           *)
(* target-configuration sub-dialog (rule-modal.vue), the script list, the  *)
(* script editor modal and the script tester.                              *)
(*                                                                         *)
(* Conventions.  JavaScript arrays are sequences (index 1 is JS index 0).  *)
(* A string holding JSON text is a record [json, pairs]: json says whether *)
(* JSON.parse accepts the text, pairs is the ordered list of key/value     *)
(* pairs of the top-level object.  A parsed object is a function from its  *)
(* keys to values.  The two are different values, converted by JSONparse   *)
(* and JSONstringify.                                                      *)
(***************************************************************************)
EXTENDS Integers, Sequences, FiniteSets, TLC

VARIABLES
    page,                 \* which view is mounted: "rules" (data-forward) or "scripts" (forward-config)
    tableData,            \* list view: rows of the table
    pagination,           \* list view: page, pageSize, itemCount
    queryParams,          \* list view: filters typed in the query form
    listLoading,          \* list view: loading of useLoading
    visible,              \* list view: the editor modal is shown (prop visible of the modal)
    modalType,            \* list view: 'add' | 'edit' (prop type of the modal)
    editData,             \* list view: id of the row being edited, or "null" (prop editData)
    loading,              \* editor modal: loading
    formModel,            \* editor modal: reactive form
    scriptOptions,        \* rule modal: options of the script select
    deviceOptions,        \* rule modal: options of a Device source
    productOptions,       \* rule modal: options of a Product source
    groupOptions,         \* rule modal: options of a Group source
    currentTargetIndex,   \* rule modal: index of the target being configured, or null
    targetConfigVisible,  \* rule modal: the sub-dialog is shown
    targetConfigType,     \* rule modal: type selected in the sub-dialog
    httpConfig,           \* rule modal: reactive HTTP config of the sub-dialog
    mqttConfig,           \* rule modal: reactive MQTT config of the sub-dialog
    testVisible,          \* script list: the tester modal is shown
    testScript,           \* script list: row handed to the tester
    testForm,             \* script tester: reactive form (script_content, test_data)
    testLoading,          \* script tester: loading
    testResult,           \* script tester: testResult
    net,                  \* suspended async functions, each awaiting the response of its request
    message,              \* window.$message call of the handler that ran last
    emitted,              \* events the modal emitted in the handler that ran last
    dlg,                  \* history: what the last editTargetConfig read, and the fields typed since
    last                  \* history: the handler that ran last, with its inputs

listVars   == <<tableData, pagination, queryParams, listLoading>>
propVars   == <<visible, modalType, editData>>
optionVars == <<scriptOptions, deviceOptions, productOptions, groupOptions>>
dialogVars == <<currentTargetIndex, targetConfigVisible, targetConfigType,
                httpConfig, mqttConfig, dlg>>
testerVars == <<testVisible, testScript, testForm, testLoading, testResult>>

vars == <<page, listVars, propVars, loading, formModel, optionVars, dialogVars,
          testerVars, net, message, emitted, last>>

(***************************************************************************)
(* Bounds of the model.                                                    *)
(***************************************************************************)
MaxTargets == 2
MaxSources == 2
MaxInflight == 2
MaxNodes == 4

(***************************************************************************)
(* JSON text and objects.                                                  *)
(***************************************************************************)
\* currentTargetIndex = null
NullIndex == 0

\* null where the source holds a string or null (script_id, the id of editData)
NullId == "null"

\* queryParams.enabled = null
NoFilter == -1

\* Order in which JSON.stringify emits the keys of a headers object.
HeaderNames == <<"h1", "h2">>

\* The subsequence of `order` whose keys are own properties of obj.
RECURSIVE OwnKeys(_, _)
OwnKeys(order, obj) ==
    IF order = <<>> THEN <<>>
    ELSE (IF Head(order) \in DOMAIN obj THEN <<Head(order)>> ELSE <<>>)
         \o OwnKeys(Tail(order), obj)

\* JSON.stringify of a flat string-to-string object (the headers map).
StringifyFlat(order, obj) ==
    LET ks == OwnKeys(order, obj)
    IN  [i \in 1..Len(ks) |-> <<ks[i], obj[ks[i]]>>]

\* JSON.stringify(obj): the own keys of obj in insertion order `order`, each with
\* its value; the nested headers object is serialised in turn.
JSONstringify(order, obj) ==
    LET ks == OwnKeys(order, obj)
    IN  [json  |-> TRUE,
         pairs |-> [i \in 1..Len(ks) |->
                      <<ks[i], IF ks[i] = "headers"
                               THEN StringifyFlat(HeaderNames, obj[ks[i]])
                               ELSE obj[ks[i]]>>]]

\* JSON.parse(text) throws a SyntaxError.
ParseThrows(text) == ~text.json

\* The object a list of pairs denotes (a repeated key keeps its last value).
ParsePairs(pairs) ==
    [k \in {pairs[i][1] : i \in DOMAIN pairs} |->
        LET at == CHOOSE i \in DOMAIN pairs :
                     /\ pairs[i][1] = k
                     /\ \A j \in DOMAIN pairs : pairs[j][1] = k => j <= i
        IN  pairs[at][2]]

\* JSON.parse(text), for a text it accepts.
JSONparse(text) ==
    LET flat == ParsePairs(text.pairs)
    IN  [k \in DOMAIN flat |->
            IF k = "headers" THEN ParsePairs(flat[k]) ELSE flat[k]]

\* config.k || d for a string-valued key: undefined and '' give d.
OrStr(config, k, d) ==
    IF k \in DOMAIN config /\ config[k] # "" THEN config[k] ELSE d

\* config.k || d for a number-valued key: undefined and 0 give d.
OrNum(config, k, d) ==
    IF k \in DOMAIN config /\ config[k] # 0 THEN config[k] ELSE d

\* config.k || d for an object-valued key: only undefined gives d.
OrObj(config, k, d) ==
    IF k \in DOMAIN config THEN config[k] ELSE d

\* config.k ?? d: only undefined gives d.
Nullish(config, k, d) ==
    IF k \in DOMAIN config THEN config[k] ELSE d

(***************************************************************************)
(* rule-modal.vue: the target list and the target-configuration sub-dialog *)
(***************************************************************************)
HttpKeys == <<"url", "method", "headers", "secret", "timeout">>
MqttKeys == <<"broker", "port", "topic", "username", "password", "client_id", "qos">>

\* Initial value of the reactive httpConfig.
HttpInitial ==
    [url |-> "", method |-> "POST", headers |-> <<>>, secret |-> "", timeout |-> 30]

\* Initial value of the reactive mqttConfig.
MqttInitial ==
    [broker |-> "", port |-> 1883, topic |-> "", username |-> "", password |-> "",
     client_id |-> "", qos |-> 1]

\* The target addTarget pushes.
NewTarget ==
    [target_type |-> "http",
     config |-> JSONstringify(<<"url", "method", "timeout">>,
                              [url |-> "", method |-> "POST", timeout |-> 30])]

NoDlg == [index |-> NullIndex, target |-> NewTarget, touched |-> {}]

\* array.splice(index): everything from the index-th element on is removed.
SpliceToEnd(s, index) == SubSeq(s, 1, index - 1)

\* Remove the index-th element: array.splice(index, 1).
Splice(s, index) ==
    [i \in 1..(Len(s) - 1) |-> IF i < index THEN s[i] ELSE s[i + 1]]

\* Everything of the views but the rule form and its sub-dialog.
restOfRuleModal ==
    <<page, listVars, propVars, loading, optionVars, testerVars, net>>

\* The handler shows no message and emits no event.
Quiet == message' = "" /\ emitted' = <<>>

\* The rule form can be operated: the modal is shown and the sub-dialog, a modal
\* layer above it, is not.
FormReachable == page = "rules" /\ visible /\ ~targetConfigVisible

\* The sub-dialog can be operated.
DialogReachable == page = "rules" /\ visible /\ targetConfigVisible

AddTarget ==
    /\ FormReachable
    /\ Len(formModel.targets) < MaxTargets
    /\ formModel' = [formModel EXCEPT !.targets = Append(@, NewTarget)]
    /\ last' = [op |-> "addTarget"]
    /\ Quiet
    /\ UNCHANGED <<dialogVars, restOfRuleModal>>

RemoveTarget(index) ==
    /\ FormReachable
    /\ index \in 1..Len(formModel.targets)
    /\ formModel' = [formModel EXCEPT !.targets = Splice(@, index)]
    /\ last' = [op |-> "removeTarget", index |-> index]
    /\ Quiet
    /\ UNCHANGED <<dialogVars, restOfRuleModal>>

\* Object.assign(httpConfig, {...}) of editTargetConfig.
AssignHttp(config) ==
    [url     |-> OrStr(config, "url", ""),
     method  |-> OrStr(config, "method", "POST"),
     headers |-> OrObj(config, "headers", <<>>),
     secret  |-> OrStr(config, "secret", ""),
     timeout |-> OrNum(config, "timeout", 30)]

\* Object.assign(mqttConfig, {...}) of editTargetConfig.
AssignMqtt(config) ==
    [broker    |-> OrStr(config, "broker", ""),
     port      |-> OrNum(config, "port", 1883),
     topic     |-> OrStr(config, "topic", ""),
     username  |-> OrStr(config, "username", ""),
     password  |-> OrStr(config, "password", ""),
     client_id |-> OrStr(config, "client_id", ""),
     qos       |-> Nullish(config, "qos", 1)]

EditTargetConfig(index) ==
    /\ FormReachable
    /\ index \in 1..Len(formModel.targets)
    /\ LET target == formModel.targets[index] IN
        /\ currentTargetIndex' = index
        /\ targetConfigType' = target.target_type
        /\ IF ParseThrows(target.config)
           THEN UNCHANGED <<httpConfig, mqttConfig>>
           ELSE LET config == JSONparse(target.config) IN
                IF target.target_type = "http"
                THEN httpConfig' = AssignHttp(config) /\ UNCHANGED mqttConfig
                ELSE mqttConfig' = AssignMqtt(config) /\ UNCHANGED httpConfig
        /\ dlg' = [index |-> index, target |-> target, touched |-> {}]
    /\ targetConfigVisible' = TRUE
    /\ last' = [op |-> "editTargetConfig", index |-> index]
    /\ Quiet
    /\ UNCHANGED <<formModel, restOfRuleModal>>

\* A save that writes the config and leaves the type of the target as it was.
SavedTargetKeepingType ==
    [target_type |-> formModel.targets[currentTargetIndex].target_type,
     config |-> IF targetConfigType = "http"
                THEN JSONstringify(HttpKeys, httpConfig)
                ELSE JSONstringify(MqttKeys, mqttConfig)]

\* The target saveTargetConfig leaves at the recorded index.
SavedTarget ==
    [target_type |-> targetConfigType,
     config |-> IF targetConfigType = "http"
                THEN JSONstringify(HttpKeys, httpConfig)
                ELSE JSONstringify(MqttKeys, mqttConfig)]

SaveTargetConfig ==
    /\ DialogReachable
    /\ IF currentTargetIndex = NullIndex
       THEN UNCHANGED <<formModel, targetConfigVisible, currentTargetIndex>>
       ELSE IF currentTargetIndex > Len(formModel.targets)
       THEN \* formModel.targets[index] is undefined: target.config = ... throws
            UNCHANGED <<formModel, targetConfigVisible, currentTargetIndex>>
       ELSE /\ formModel' = [formModel EXCEPT !.targets[currentTargetIndex] = SavedTarget]
            /\ targetConfigVisible' = FALSE
            /\ currentTargetIndex' = NullIndex
    /\ last' = [op |-> "saveTargetConfig"]
    /\ Quiet
    /\ UNCHANGED <<targetConfigType, httpConfig, mqttConfig, dlg, restOfRuleModal>>

\* The sub-dialog's cancel button: targetConfigVisible = false.
CancelTargetConfig ==
    /\ DialogReachable
    /\ targetConfigVisible' = FALSE
    /\ last' = [op |-> "cancelTargetConfig"]
    /\ Quiet
    /\ UNCHANGED <<formModel, currentTargetIndex, targetConfigType, httpConfig,
                   mqttConfig, dlg, restOfRuleModal>>

\* v-model of the sub-dialog's type select.
SetTargetConfigType(t) ==
    /\ DialogReachable
    /\ t # targetConfigType
    /\ targetConfigType' = t
    /\ dlg' = [dlg EXCEPT !.touched = @ \cup {"target_type"}]
    /\ last' = [op |-> "input"]
    /\ Quiet
    /\ UNCHANGED <<formModel, currentTargetIndex, targetConfigVisible, httpConfig,
                   mqttConfig, restOfRuleModal>>

\* v-model of an input of the HTTP template of the sub-dialog.
SetHttpField(k, v) ==
    /\ DialogReachable
    /\ targetConfigType = "http"
    /\ httpConfig[k] # v
    /\ httpConfig' = [httpConfig EXCEPT ![k] = v]
    /\ dlg' = [dlg EXCEPT !.touched = @ \cup {k}]
    /\ last' = [op |-> "input"]
    /\ Quiet
    /\ UNCHANGED <<formModel, currentTargetIndex, targetConfigVisible,
                   targetConfigType, mqttConfig, restOfRuleModal>>

\* v-model of an input of the MQTT template of the sub-dialog.
SetMqttField(k, v) ==
    /\ DialogReachable
    /\ targetConfigType # "http"
    /\ mqttConfig[k] # v
    /\ mqttConfig' = [mqttConfig EXCEPT ![k] = v]
    /\ dlg' = [dlg EXCEPT !.touched = @ \cup {k}]
    /\ last' = [op |-> "input"]
    /\ Quiet
    /\ UNCHANGED <<formModel, currentTargetIndex, targetConfigVisible,
                   targetConfigType, httpConfig, restOfRuleModal>>

\* The summary shown in a target row; the display string is the list of its parts.
getTargetSummary(target) ==
    IF ParseThrows(target.config) THEN <<"-">>
    ELSE LET config == JSONparse(target.config) IN
         IF target.target_type = "http"
         THEN <<OrStr(config, "url", "-")>>
         ELSE <<OrStr(config, "broker", "-")>>
              \o (IF OrStr(config, "topic", "") # ""
                  THEN <<OrStr(config, "topic", "")>> ELSE <<>>)

(***************************************************************************)
(* Target configurations a server may hold (created by this editor or by   *)
(* any other client of the REST API).                                      *)
(***************************************************************************)
Opt(k, values) == {<<>>} \cup {<< <<k, v>> >> : v \in values}

\* Valid HTTPTargetConfig values, as JSON text.
HttpTexts ==
    {[json |-> TRUE, pairs |-> << <<"url", "u1">> >> \o m \o h \o s \o t] :
        m \in Opt("method", {"GET", "PUT"}),
        h \in Opt("headers", {<< <<"h1", "v1">> >>}),
        s \in Opt("secret", {"s1"}),
        t \in Opt("timeout", {1, 120})}

\* Valid MQTTTargetConfig values, as JSON text.
MqttTexts ==
    {[json |-> TRUE,
      pairs |-> << <<"broker", "b1">>, <<"topic", "t1">> >> \o p \o u \o w \o c \o q \o v] :
        p \in Opt("port", {65535}),
        u \in Opt("username", {"un"}),
        w \in Opt("password", {"pw"}),
        c \in Opt("client_id", {"c1"}),
        q \in Opt("qos", {0, 2}),
        v \in Opt("version", {"v5"})}

\* A config string JSON.parse rejects.
Garbage == [json |-> FALSE, pairs |-> <<>>]

ServerTargets ==
    {[target_type |-> "http", config |-> c] : c \in HttpTexts \cup {Garbage}}
    \cup {[target_type |-> "mqtt", config |-> c] : c \in MqttTexts \cup {Garbage}}

\* A few of them, for the runs that also let the user type in the sub-dialog.
SampleTargets ==
    {[target_type |-> "http", config |-> Garbage],
     [target_type |-> "mqtt", config |-> Garbage],
     [target_type |-> "http",
      config |-> [json |-> TRUE,
                  pairs |-> << <<"url", "u1">>, <<"secret", "s1">> >>]],
     [target_type |-> "mqtt",
      config |-> [json |-> TRUE,
                  pairs |-> << <<"broker", "b1">>, <<"topic", "t1">>,
                               <<"password", "pw">> >>]]}

\* What the user types in the sub-dialog.
HttpInputs == {<<"url", "u2">>}
MqttInputs == {<<"broker", "b2">>}

RECURSIVE SeqsUpTo(_, _)
SeqsUpTo(S, n) ==
    IF n = 0 THEN {<<>>}
    ELSE SeqsUpTo(S, n - 1) \cup
         {Append(s, x) : s \in {q \in SeqsUpTo(S, n - 1) : Len(q) = n - 1}, x \in S}

\* The form of rule-modal.vue as constructed, and as resetForm leaves it.
EmptyRuleForm ==
    [name |-> "", description |-> "", script_id |-> NullId, remark |-> "",
     sources |-> <<>>, targets |-> <<>>]

(***************************************************************************)
(* The network.  Every API wrapper issues one request and resolves to the  *)
(* transport's {data, error}; the server is outside the repository, so a   *)
(* response is any value of the response's type.  A task is an async       *)
(* function suspended at its await, with the values it captured.           *)
(***************************************************************************)
\* The array without its i-th element.
Without(s, i) == [k \in 1..(Len(s) - 1) |-> IF k < i THEN s[k] ELSE s[k + 1]]

\* Another request may be issued (bound of the model).
CanIssue == Len(net) < MaxInflight

(***************************************************************************)
(* data-forward/index.vue (rules) and forward-config/index.vue (scripts):  *)
(* the list views.                                                         *)
(***************************************************************************)
\* The buttons of the list view can be clicked: no modal lies above it.
PageReachable == ~visible /\ ~testVisible

\* Parameters getTableData sends: name and enabled are left out when not set.
ListParams(pg, qp) ==
    [page |-> pg.page, page_size |-> pg.pageSize]
    @@ (IF qp.name # "" THEN [name |-> qp.name] ELSE <<>>)
    @@ (IF "enabled" \in DOMAIN qp /\ qp.enabled # NoFilter
        THEN [enabled |-> qp.enabled] ELSE <<>>)

\* getTableData suspended at its await of getForwardingRules / getForwardingScripts.
ListTask(pg, qp) == [kind |-> "list", params |-> ListParams(pg, qp)]

\* onMounted(() => getTableData()), and every later call of getTableData up to
\* its await: startLoading() and the request.
GetTableData(pg, qp, tasks) ==
    /\ listLoading' = TRUE
    /\ net' = Append(tasks, ListTask(pg, qp))

\* A table replaced by a list response leaves the row objects of the old table
\* to the closures that hold them: they are no longer displayed.
Orphaned(tasks) ==
    [k \in DOMAIN tasks |->
        IF tasks[k].kind = "status" THEN [tasks[k] EXCEPT !.stale = TRUE] ELSE tasks[k]]

\* A getTableData that empties the table when the response carries no data.
ListRespClearing(i, res) ==
    /\ i \in DOMAIN net
    /\ net[i].kind = "list"
    /\ IF ~res.error /\ res.has
       THEN /\ tableData' = (IF "list" \in DOMAIN res.data THEN res.data.list ELSE <<>>)
            /\ pagination' = [pagination EXCEPT
                                 !.itemCount = IF "total" \in DOMAIN res.data
                                               THEN res.data.total ELSE 0]
       ELSE /\ tableData' = <<>>
            /\ pagination' = [pagination EXCEPT !.itemCount = 0]
    /\ net' = Orphaned(Without(net, i))
    /\ listLoading' = FALSE
    /\ Quiet
    /\ last' = [op |-> "listResp", task |-> net[i], res |-> res]
    /\ UNCHANGED <<page, queryParams, propVars, loading, formModel, optionVars,
                   dialogVars, testerVars>>

\* getTableData resumed with the response res = [error, has, data].
ListResp(i, res) ==
    /\ i \in DOMAIN net
    /\ net[i].kind = "list"
    /\ IF ~res.error /\ res.has
       THEN /\ tableData' = (IF "list" \in DOMAIN res.data THEN res.data.list ELSE <<>>)
            /\ pagination' = [pagination EXCEPT
                                 !.itemCount = IF "total" \in DOMAIN res.data
                                               THEN res.data.total ELSE 0]
            /\ net' = Orphaned(Without(net, i))
       ELSE /\ UNCHANGED <<tableData, pagination>>
            /\ net' = Without(net, i)
    /\ listLoading' = FALSE
    /\ Quiet
    /\ last' = [op |-> "listResp", task |-> net[i], res |-> res]
    /\ UNCHANGED <<page, queryParams, propVars, loading, formModel, optionVars,
                   dialogVars, testerVars>>

\* v-model of the name filter.
SetQueryName(v) ==
    /\ PageReachable
    /\ queryParams.name # v
    /\ queryParams' = [queryParams EXCEPT !.name = v]
    /\ Quiet
    /\ last' = [op |-> "input"]
    /\ UNCHANGED <<page, tableData, pagination, listLoading, propVars, loading,
                   formModel, optionVars, dialogVars, testerVars, net>>

\* v-model of the status filter of the rule list.
SetQueryEnabled(v) ==
    /\ PageReachable
    /\ page = "rules"
    /\ queryParams.enabled # v
    /\ queryParams' = [queryParams EXCEPT !.enabled = v]
    /\ Quiet
    /\ last' = [op |-> "input"]
    /\ UNCHANGED <<page, tableData, pagination, listLoading, propVars, loading,
                   formModel, optionVars, dialogVars, testerVars, net>>

HandleQuery ==
    /\ PageReachable
    /\ CanIssue
    /\ pagination' = [pagination EXCEPT !.page = 1]
    /\ GetTableData(pagination', queryParams, net)
    /\ Quiet
    /\ last' = [op |-> "handleQuery"]
    /\ UNCHANGED <<page, tableData, queryParams, propVars, loading, formModel,
                   optionVars, dialogVars, testerVars>>

HandleReset ==
    /\ PageReachable
    /\ CanIssue
    /\ queryParams' = (IF page = "rules" THEN [name |-> "", enabled |-> NoFilter]
                                         ELSE [name |-> ""])
    /\ pagination' = [pagination EXCEPT !.page = 1]
    /\ GetTableData(pagination', queryParams', net)
    /\ Quiet
    /\ last' = [op |-> "handleReset"]
    /\ UNCHANGED <<page, tableData, propVars, loading, formModel, optionVars,
                   dialogVars, testerVars>>

\* pagination.onChange
OnChangePage(p) ==
    /\ PageReachable
    /\ CanIssue
    /\ p # pagination.page
    /\ pagination' = [pagination EXCEPT !.page = p]
    /\ GetTableData(pagination', queryParams, net)
    /\ Quiet
    /\ last' = [op |-> "onChange"]
    /\ UNCHANGED <<page, tableData, queryParams, propVars, loading, formModel,
                   optionVars, dialogVars, testerVars>>

\* pagination.onUpdatePageSize
OnUpdatePageSize(n) ==
    /\ PageReachable
    /\ CanIssue
    /\ n # pagination.pageSize
    /\ pagination' = [pagination EXCEPT !.pageSize = n, !.page = 1]
    /\ GetTableData(pagination', queryParams, net)
    /\ Quiet
    /\ last' = [op |-> "onUpdatePageSize"]
    /\ UNCHANGED <<page, tableData, queryParams, propVars, loading, formModel,
                   optionVars, dialogVars, testerVars>>

\* Confirming the delete of a row: the delete request is issued.
\* A delete handler that refreshes the list without awaiting the delete call.
HandleDeleteEager(kind, id) ==
    /\ PageReachable
    /\ CanIssue
    /\ \E k \in DOMAIN tableData : tableData[k].id = id
    /\ GetTableData(pagination, queryParams, Append(net, [kind |-> kind, id |-> id]))
    /\ Quiet
    /\ last' = [op |-> "handleDelete", id |-> id]
    /\ UNCHANGED <<page, tableData, pagination, queryParams, propVars, loading,
                   formModel, optionVars, dialogVars, testerVars>>

HandleDelete(kind, id) ==
    /\ PageReachable
    /\ CanIssue
    /\ \E k \in DOMAIN tableData : tableData[k].id = id
    /\ net' = Append(net, [kind |-> kind, id |-> id])
    /\ Quiet
    /\ last' = [op |-> "handleDelete", id |-> id]
    /\ UNCHANGED <<page, listVars, propVars, loading, formModel, optionVars,
                   dialogVars, testerVars>>

\* A delete handler that refreshes the list whatever the outcome of the call.
DeleteRespRefreshing(kind, i, error) ==
    /\ i \in DOMAIN net
    /\ net[i].kind = kind
    /\ message' = (IF ~error THEN "success" ELSE "")
    /\ GetTableData(pagination, queryParams, Without(net, i))
    /\ emitted' = <<>>
    /\ last' = [op |-> "deleteResp", task |-> net[i], error |-> error]
    /\ UNCHANGED <<page, tableData, pagination, queryParams, propVars, loading,
                   formModel, optionVars, dialogVars, testerVars>>

\* The delete handler resumed with {error}: on success a message and getTableData().
DeleteResp(kind, i, error) ==
    /\ i \in DOMAIN net
    /\ net[i].kind = kind
    /\ IF ~error
       THEN /\ message' = "success"
            /\ GetTableData(pagination, queryParams, Without(net, i))
       ELSE /\ message' = ""
            /\ net' = Without(net, i)
            /\ UNCHANGED listLoading
    /\ emitted' = <<>>
    /\ last' = [op |-> "deleteResp", task |-> net[i], error |-> error]
    /\ UNCHANGED <<page, tableData, pagination, queryParams, propVars, loading,
                   formModel, optionVars, dialogVars, testerVars>>

HandleDeleteRule(id) == page = "rules" /\ HandleDelete("deleteRule", id)

DeleteRuleResp(i, error) == DeleteResp("deleteRule", i, error)

HandleDeleteScript(id) == page = "scripts" /\ HandleDelete("deleteScript", id)

DeleteScriptResp(i, error) == DeleteResp("deleteScript", i, error)

\* newStatus of handleToggleStatus
NewStatus(row) == IF row.enabled = 1 THEN 0 ELSE 1

\* The switch of row k is clicked: the status request is issued.
HandleToggleStatus(k) ==
    /\ page = "rules"
    /\ PageReachable
    /\ CanIssue
    /\ k \in DOMAIN tableData
    /\ net' = Append(net, [kind |-> "status", row |-> k, stale |-> FALSE,
                           params |-> [id |-> tableData[k].id,
                                       enabled |-> NewStatus(tableData[k])]])
    /\ Quiet
    /\ last' = [op |-> "handleToggleStatus", row |-> k]
    /\ UNCHANGED <<page, listVars, propVars, loading, formModel, optionVars,
                   dialogVars, testerVars>>

\* handleToggleStatus resumed with {error}: on success row.enabled = newStatus.
ToggleStatusResp(i, error) ==
    /\ i \in DOMAIN net
    /\ net[i].kind = "status"
    /\ IF ~error
       THEN /\ tableData' = (IF net[i].stale THEN tableData
                             ELSE [tableData EXCEPT
                                      ![net[i].row].enabled = net[i].params.enabled])
            /\ message' = "success"
       ELSE /\ UNCHANGED tableData
            /\ message' = ""
    /\ net' = Without(net, i)
    /\ emitted' = <<>>
    /\ last' = [op |-> "toggleStatusResp", task |-> net[i], error |-> error]
    /\ UNCHANGED <<page, pagination, queryParams, listLoading, propVars, loading,
                   formModel, optionVars, dialogVars, testerVars>>

(***************************************************************************)
(* rule-modal.vue and script-modal.vue: the editor modals.                 *)
(***************************************************************************)
\* defaultScriptContent(): the template a new script starts from.
DefaultScriptContent == "template"

EmptyScriptForm ==
    [name |-> "", description |-> "", script_content |-> DefaultScriptContent,
     remark |-> ""]

\* The form of the modal can be operated.
ModalReachable == visible /\ ~targetConfigVisible

\* loadEditData up to its await: the detail request of props.editData.id.
LoadEditData(kind, id, tasks) ==
    IF id = NullId
    THEN net' = tasks /\ UNCHANGED loading
    ELSE loading' = TRUE /\ net' = Append(tasks, [kind |-> kind, id |-> id])

\* The watcher of props.visible of rule-modal.vue, up to its await of loadOptions():
\* the four reference fetches are issued together.
RuleWatchVisible(tasks) == net' = Append(tasks, [kind |-> "options"])

\* The watcher of props.visible of script-modal.vue.
ScriptWatchVisible(type, id, tasks) ==
    IF type = "edit"
    THEN LoadEditData("scriptDetail", id, tasks) /\ UNCHANGED formModel
    ELSE formModel' = EmptyScriptForm /\ net' = tasks /\ UNCHANGED loading

HandleAddRule ==
    /\ page = "rules"
    /\ PageReachable
    /\ CanIssue
    /\ modalType' = "add"
    /\ editData' = NullId
    /\ visible' = TRUE
    /\ RuleWatchVisible(net)
    /\ Quiet
    /\ last' = [op |-> "handleAdd"]
    /\ UNCHANGED <<page, listVars, loading, formModel, optionVars, dialogVars,
                   testerVars>>

HandleEditRule(k) ==
    /\ page = "rules"
    /\ PageReachable
    /\ CanIssue
    /\ k \in DOMAIN tableData
    /\ modalType' = "edit"
    /\ editData' = tableData[k].id
    /\ visible' = TRUE
    /\ RuleWatchVisible(net)
    /\ Quiet
    /\ last' = [op |-> "handleEdit"]
    /\ UNCHANGED <<page, listVars, loading, formModel, optionVars, dialogVars,
                   testerVars>>

HandleAddScript ==
    /\ page = "scripts"
    /\ PageReachable
    /\ modalType' = "add"
    /\ editData' = NullId
    /\ visible' = TRUE
    /\ ScriptWatchVisible(modalType', editData', net)
    /\ Quiet
    /\ last' = [op |-> "handleAdd"]
    /\ UNCHANGED <<page, listVars, optionVars, dialogVars, testerVars>>

HandleEditScript(k) ==
    /\ page = "scripts"
    /\ PageReachable
    /\ CanIssue
    /\ k \in DOMAIN tableData
    /\ modalType' = "edit"
    /\ editData' = tableData[k].id
    /\ visible' = TRUE
    /\ ScriptWatchVisible(modalType', editData', net)
    /\ Quiet
    /\ last' = [op |-> "handleEdit"]
    /\ UNCHANGED <<page, listVars, optionVars, dialogVars, testerVars>>

\* closeModal: the cancel button, the close button of the card, Esc.
CloseModal ==
    /\ ModalReachable
    /\ visible' = FALSE
    /\ message' = ""
    /\ emitted' = <<"update:visible">>
    /\ last' = [op |-> "closeModal"]
    /\ UNCHANGED <<page, listVars, modalType, editData, loading, formModel,
                   optionVars, dialogVars, testerVars, net>>

\* The select options of a list of items: {label: item.name || item.id, value: item.id}.
ItemOptions(items) ==
    [k \in DOMAIN items |->
        [label |-> OrStr(items[k], "name", items[k].id), value |-> items[k].id]]

\* The select options of the scripts: {label: item.name, value: item.id}.
ScriptItemOptions(items) ==
    [k \in DOMAIN items |-> [label |-> items[k].name, value |-> items[k].id]]

\* group?.id && group?.name
HasIdAndName(group) ==
    /\ "id" \in DOMAIN group /\ group.id # ""
    /\ "name" \in DOMAIN group /\ group.name # ""

\* A flattening that does not descend below a node it leaves out.
RECURSIVE flattenShallow(_, _)
flattenShallow(nodes, result) ==
    IF nodes = <<>> THEN result
    ELSE LET node     == Head(nodes)
             children == IF "children" \in DOMAIN node THEN node.children ELSE <<>>
             below    == IF HasIdAndName(node.group)
                         THEN flattenShallow(children,
                                  Append(result, [label |-> node.group.name,
                                                  value |-> node.group.id]))
                         ELSE result
         IN  flattenShallow(Tail(nodes), below)

\* flattenGroups(nodes, result): forEach node, push its option when it has id and
\* name, then descend into its children with the same result array.
RECURSIVE flattenGroups(_, _)
flattenGroups(nodes, result) ==
    IF nodes = <<>> THEN result
    ELSE LET node     == Head(nodes)
             pushed   == IF HasIdAndName(node.group)
                         THEN Append(result, [label |-> node.group.name,
                                              value |-> node.group.id])
                         ELSE result
             children == IF "children" \in DOMAIN node THEN node.children ELSE <<>>
             below    == IF Len(children) > 0
                         THEN flattenGroups(children, pushed)
                         ELSE pushed
         IN  flattenGroups(Tail(nodes), below)

\* Array.isArray(groupsRes.data) ? groupsRes.data : [groupsRes.data]
GroupRoots(data) == IF data.isArray THEN data.array ELSE <<data.object>>

\* The four reference fetches of loadOptions, in the order of its Promise.all.
OptionFetches == {"scripts", "devices", "products", "groups"}

\* Promise.all rejects: one of its members does.
AnyRejected(res) == \E f \in OptionFetches : res[f].rejected

\* The rest of the watcher of props.visible after loadOptions(): loadEditData()
\* in an edit session, resetForm() otherwise.
\* A watcher whose create branch leaves the form as the last session left it.
AfterLoadOptionsKeeping(tasks) ==
    IF modalType = "edit"
    THEN LoadEditData("ruleDetail", editData, tasks) /\ UNCHANGED formModel
    ELSE /\ net' = tasks
         /\ UNCHANGED <<formModel, loading>>

AfterLoadOptions(tasks) ==
    IF modalType = "edit"
    THEN LoadEditData("ruleDetail", editData, tasks) /\ UNCHANGED formModel
    ELSE /\ formModel' = EmptyRuleForm
         /\ net' = tasks
         /\ UNCHANGED loading

\* A loadOptions that joins with Promise.allSettled: every list whose own fetch
\* returned data is set, whatever became of the other fetches.
LoadOptionsSettled(i, res) ==
    /\ i \in DOMAIN net
    /\ net[i].kind = "options"
    /\ scriptOptions' = IF ~res.scripts.rejected /\ res.scripts.has
                        THEN ScriptItemOptions(res.scripts.data)
                        ELSE scriptOptions
    /\ deviceOptions' = IF ~res.devices.rejected /\ res.devices.has
                           /\ "list" \in DOMAIN res.devices.data
                        THEN ItemOptions(res.devices.data.list)
                        ELSE deviceOptions
    /\ productOptions' = IF ~res.products.rejected /\ res.products.has
                            /\ "list" \in DOMAIN res.products.data
                         THEN ItemOptions(res.products.data.list)
                         ELSE productOptions
    /\ groupOptions' = IF ~res.groups.rejected /\ res.groups.has
                       THEN flattenGroups(GroupRoots(res.groups.data), <<>>)
                       ELSE groupOptions
    /\ AfterLoadOptions(Without(net, i))
    /\ Quiet
    /\ last' = [op |-> "loadOptions", res |-> res]
    /\ UNCHANGED <<page, listVars, propVars, dialogVars, testerVars>>

\* loadOptions resumed (Promise.all settled with res: for each fetch whether it
\* rejected, and the data it resolved to), then the rest of the watcher.  A
\* rejection is caught and ignored by loadOptions.
LoadOptionsDone(i, res) ==
    /\ i \in DOMAIN net
    /\ net[i].kind = "options"
    /\ IF AnyRejected(res)
       THEN UNCHANGED optionVars
       ELSE /\ scriptOptions' = IF res.scripts.has
                                THEN ScriptItemOptions(res.scripts.data)
                                ELSE scriptOptions
            /\ deviceOptions' = IF res.devices.has /\ "list" \in DOMAIN res.devices.data
                                THEN ItemOptions(res.devices.data.list)
                                ELSE deviceOptions
            /\ productOptions' = IF res.products.has /\ "list" \in DOMAIN res.products.data
                                 THEN ItemOptions(res.products.data.list)
                                 ELSE productOptions
            /\ groupOptions' = IF res.groups.has
                               THEN flattenGroups(GroupRoots(res.groups.data), <<>>)
                               ELSE groupOptions
    /\ AfterLoadOptions(Without(net, i))
    /\ Quiet
    /\ last' = [op |-> "loadOptions", res |-> res]
    /\ UNCHANGED <<page, listVars, propVars, dialogVars, testerVars>>

\* The form after loadEditData of rule-modal.vue applied the detail `data`.
RuleFormOf(data) ==
    [name        |-> OrStr(data, "name", ""),
     description |-> OrStr(data, "description", ""),
     script_id   |-> OrStr(data, "script_id", NullId),
     remark      |-> OrStr(data, "remark", ""),
     sources     |-> OrObj(data, "sources", <<>>),
     targets     |-> OrObj(data, "targets", <<>>)]

\* The form after loadEditData of script-modal.vue applied the detail `data`.
ScriptFormOf(data) ==
    [name           |-> OrStr(data, "name", ""),
     description    |-> OrStr(data, "description", ""),
     script_content |-> OrStr(data, "script_content", DefaultScriptContent),
     remark         |-> OrStr(data, "remark", "")]

\* loadEditData resumed with the response res = [has, data].
DetailResp(kind, i, res) ==
    /\ i \in DOMAIN net
    /\ net[i].kind = kind
    /\ formModel' = IF res.has
                    THEN (IF kind = "ruleDetail" THEN RuleFormOf(res.data)
                                                 ELSE ScriptFormOf(res.data))
                    ELSE formModel
    /\ loading' = FALSE
    /\ net' = Without(net, i)
    /\ Quiet
    /\ last' = [op |-> "loadEditData", task |-> net[i], res |-> res]
    /\ UNCHANGED <<page, listVars, propVars, optionVars, dialogVars, testerVars>>

RuleDetailResp(i, res) == DetailResp("ruleDetail", i, res)

ScriptDetailResp(i, res) == DetailResp("scriptDetail", i, res)

\* v-model of a scalar field of the form.
SetFormField(k, v) ==
    /\ ModalReachable
    /\ k \in DOMAIN formModel
    /\ formModel[k] # v
    /\ formModel' = [formModel EXCEPT ![k] = v]
    /\ Quiet
    /\ last' = [op |-> "input"]
    /\ UNCHANGED <<page, listVars, propVars, loading, optionVars, dialogVars,
                   testerVars, net>>

\* The source addSource pushes.
NewSource == [source_type |-> 1, source_id |-> ""]

AddSource ==
    /\ FormReachable
    /\ Len(formModel.sources) < MaxSources
    /\ formModel' = [formModel EXCEPT !.sources = Append(@, NewSource)]
    /\ Quiet
    /\ last' = [op |-> "addSource"]
    /\ UNCHANGED <<dialogVars, restOfRuleModal>>

RemoveSource(index) ==
    /\ FormReachable
    /\ index \in 1..Len(formModel.sources)
    /\ formModel' = [formModel EXCEPT !.sources = Splice(@, index)]
    /\ Quiet
    /\ last' = [op |-> "removeSource", index |-> index]
    /\ UNCHANGED <<dialogVars, restOfRuleModal>>

\* v-model of the type select of a source row.
SetSourceType(index, t) ==
    /\ FormReachable
    /\ index \in 1..Len(formModel.sources)
    /\ formModel.sources[index].source_type # t
    /\ formModel' = [formModel EXCEPT !.sources[index].source_type = t]
    /\ Quiet
    /\ last' = [op |-> "input"]
    /\ UNCHANGED <<dialogVars, restOfRuleModal>>

\* The options of the id select of a source row.
getSourceOptions(sourceType) ==
    CASE sourceType = 1 -> deviceOptions
      [] sourceType = 2 -> productOptions
      [] sourceType = 3 -> groupOptions
      [] OTHER -> <<>>

\* v-model of the id select of a source row: one of the options offered.
SetSourceId(index, o) ==
    /\ FormReachable
    /\ index \in 1..Len(formModel.sources)
    /\ o \in DOMAIN getSourceOptions(formModel.sources[index].source_type)
    /\ LET v == getSourceOptions(formModel.sources[index].source_type)[o].value IN
        /\ formModel.sources[index].source_id # v
        /\ formModel' = [formModel EXCEPT !.sources[index].source_id = v]
    /\ Quiet
    /\ last' = [op |-> "input"]
    /\ UNCHANGED <<dialogVars, restOfRuleModal>>

\* A required rule of the form accepts the value (createRequiredFormRule).
RequiredOk(value) == value # ""

\* A validation that accepts every form.
AcceptAnyForm(form) == TRUE

\* formRef.value?.validate() of rule-modal.vue resolves: rules = {name}.
RuleFormValid(form) == RequiredOk(form.name)

\* A script validation whose only rule is the name.
ScriptFormValidNameOnly(form) == RequiredOk(form.name)

\* formRef.value?.validate() of script-modal.vue resolves: rules = {name, script_content}.
ScriptFormValid(form) == RequiredOk(form.name) /\ RequiredOk(form.script_content)

\* A submitData that leaves out the sources without an id.
RuleSubmitDataFiltered(form) ==
    [name |-> form.name, description |-> form.description, remark |-> form.remark,
     sources |-> SelectSeq(form.sources, LAMBDA s : s.source_id # ""),
     targets |-> form.targets]
    @@ (IF form.script_id # NullId /\ form.script_id # ""
        THEN [script_id |-> form.script_id] ELSE <<>>)

\* submitData of rule-modal.vue; script_id is undefined, and so left out of the
\* request body, when the form has none.
RuleSubmitData(form) ==
    [name |-> form.name, description |-> form.description, remark |-> form.remark,
     sources |-> form.sources, targets |-> form.targets]
    @@ (IF form.script_id # NullId /\ form.script_id # ""
        THEN [script_id |-> form.script_id] ELSE <<>>)

\* submitData of script-modal.vue
ScriptSubmitData(form) ==
    [name |-> form.name, description |-> form.description,
     script_content |-> form.script_content, remark |-> form.remark]

\* A routing that always creates.
SubmitTaskCreate(entity, submitData) ==
    [kind |-> "create", entity |-> entity, body |-> submitData]

\* The request handleSubmit issues: update with the id in an edit session of a
\* row that has one, create otherwise.
SubmitTask(entity, submitData) ==
    IF modalType = "edit" /\ editData # NullId
    THEN [kind |-> "update", entity |-> entity, body |-> [id |-> editData] @@ submitData]
    ELSE [kind |-> "create", entity |-> entity, body |-> submitData]

\* handleSubmit up to its await of the create/update call; a failed validation
\* rejects and the handler ends there.
HandleSubmit(entity, valid, submitData) ==
    /\ ModalReachable
    /\ ~loading
    /\ IF valid
       THEN /\ CanIssue
            /\ loading' = TRUE
            /\ net' = Append(net, SubmitTask(entity, submitData))
       ELSE UNCHANGED <<loading, net>>
    /\ Quiet
    /\ last' = [op |-> "handleSubmit", valid |-> valid]
    /\ UNCHANGED <<page, listVars, propVars, formModel, optionVars, dialogVars,
                   testerVars>>

RuleHandleSubmit ==
    /\ page = "rules"
    /\ HandleSubmit("rule", RuleFormValid(formModel), RuleSubmitData(formModel))

ScriptHandleSubmit ==
    /\ page = "scripts"
    /\ HandleSubmit("script", ScriptFormValid(formModel), ScriptSubmitData(formModel))

\* A submit that closes the modal and signals the parent whatever the outcome.
SubmitRespClosing(i, error) ==
    /\ i \in DOMAIN net
    /\ net[i].kind \in {"create", "update"}
    /\ message' = (IF ~error THEN "success" ELSE "")
    /\ emitted' = <<"success", "update:visible">>
    /\ GetTableData(pagination, queryParams, Without(net, i))
    /\ visible' = FALSE
    /\ loading' = FALSE
    /\ last' = [op |-> "submitResp", task |-> net[i], error |-> error]
    /\ UNCHANGED <<page, tableData, pagination, queryParams, modalType, editData,
                   formModel, optionVars, dialogVars, testerVars>>

\* handleSubmit resumed with {error}: on success the message, emit('success'),
\* which runs getTableData of the list view, and closeModal().
SubmitResp(i, error) ==
    /\ i \in DOMAIN net
    /\ net[i].kind \in {"create", "update"}
    /\ IF ~error
       THEN /\ message' = "success"
            /\ emitted' = <<"success", "update:visible">>
            /\ GetTableData(pagination, queryParams, Without(net, i))
            /\ visible' = FALSE
       ELSE /\ message' = ""
            /\ emitted' = <<>>
            /\ net' = Without(net, i)
            /\ UNCHANGED <<listLoading, visible>>
    /\ loading' = FALSE
    /\ last' = [op |-> "submitResp", task |-> net[i], error |-> error]
    /\ UNCHANGED <<page, tableData, pagination, queryParams, modalType, editData,
                   formModel, optionVars, dialogVars, testerVars>>

(***************************************************************************)
(* script-test-modal.vue: the script tester.                               *)
(***************************************************************************)
\* defaultTestData(): the sample payload, as JSON text.
DefaultTestData == "sample"

NoResult == [none |-> TRUE]

\* handleTestScript of the script list, and the watcher of props.visible of the
\* tester it triggers.
HandleTestScript(k) ==
    /\ page = "scripts"
    /\ PageReachable
    /\ k \in DOMAIN tableData
    /\ testScript' = tableData[k]
    /\ testVisible' = TRUE
    /\ testResult' = NoResult
    /\ testForm' = [script_content |-> OrStr(tableData[k], "script_content", ""),
                    test_data |-> DefaultTestData]
    /\ Quiet
    /\ last' = [op |-> "handleTestScript"]
    /\ UNCHANGED <<page, listVars, propVars, loading, formModel, optionVars,
                   dialogVars, testLoading, net>>

\* closeModal of the tester.
CloseTestModal ==
    /\ testVisible
    /\ testVisible' = FALSE
    /\ message' = ""
    /\ emitted' = <<"update:visible">>
    /\ last' = [op |-> "closeModal"]
    /\ UNCHANGED <<page, listVars, propVars, loading, formModel, optionVars,
                   dialogVars, testScript, testForm, testLoading, testResult, net>>

\* v-model of the editors of the tester.
SetTestField(k, v) ==
    /\ testVisible
    /\ testForm[k] # v
    /\ testForm' = [testForm EXCEPT ![k] = v]
    /\ Quiet
    /\ last' = [op |-> "input"]
    /\ UNCHANGED <<page, listVars, propVars, loading, formModel, optionVars,
                   dialogVars, testVisible, testScript, testLoading, testResult, net>>

\* A handleTest without the check of script_content.
HandleTestUnchecked ==
    /\ testVisible
    /\ ~testLoading
    /\ CanIssue
    /\ message' = ""
    /\ testLoading' = TRUE
    /\ testResult' = NoResult
    /\ net' = Append(net, [kind |-> "test",
                           params |-> [script_content |-> testForm.script_content,
                                       test_data |-> testForm.test_data]])
    /\ emitted' = <<>>
    /\ last' = [op |-> "handleTest"]
    /\ UNCHANGED <<page, listVars, propVars, loading, formModel, optionVars,
                   dialogVars, testVisible, testScript, testForm>>

\* handleTest up to its await of testForwardingScript.
HandleTest ==
    /\ testVisible
    /\ ~testLoading
    /\ IF testForm.script_content = ""
       THEN /\ message' = "warning"
            /\ UNCHANGED <<testLoading, testResult, net>>
       ELSE /\ CanIssue
            /\ message' = ""
            /\ testLoading' = TRUE
            /\ testResult' = NoResult
            /\ net' = Append(net, [kind |-> "test",
                                   params |-> [script_content |-> testForm.script_content,
                                               test_data |-> testForm.test_data]])
    /\ emitted' = <<>>
    /\ last' = [op |-> "handleTest"]
    /\ UNCHANGED <<page, listVars, propVars, loading, formModel, optionVars,
                   dialogVars, testVisible, testScript, testForm>>

\* A handleTest without its finally block: a call that rejects leaves loading set.
TestRespNoFinally(i, res) ==
    /\ i \in DOMAIN net
    /\ net[i].kind = "test"
    /\ IF ~res.error /\ res.has
       THEN /\ testResult' = res.data
            /\ message' = IF res.data.success THEN "success" ELSE "error"
       ELSE /\ UNCHANGED testResult
            /\ message' = ""
    /\ testLoading' = ("thrown" \in DOMAIN res)
    /\ net' = Without(net, i)
    /\ emitted' = <<>>
    /\ last' = [op |-> "testResp", task |-> net[i], res |-> res]
    /\ UNCHANGED <<page, listVars, propVars, loading, formModel, optionVars,
                   dialogVars, testVisible, testScript, testForm>>

\* A handleTest that keeps the result of a successful script only.
TestRespSuccessOnly(i, res) ==
    /\ i \in DOMAIN net
    /\ net[i].kind = "test"
    /\ IF ~res.error /\ res.has /\ res.data.success
       THEN /\ testResult' = res.data
            /\ message' = "success"
       ELSE /\ UNCHANGED testResult
            /\ message' = IF ~res.error /\ res.has THEN "error" ELSE ""
    /\ testLoading' = FALSE
    /\ net' = Without(net, i)
    /\ emitted' = <<>>
    /\ last' = [op |-> "testResp", task |-> net[i], res |-> res]
    /\ UNCHANGED <<page, listVars, propVars, loading, formModel, optionVars,
                   dialogVars, testVisible, testScript, testForm>>

\* handleTest resumed with the response res = [error, has, data].
TestResp(i, res) ==
    /\ i \in DOMAIN net
    /\ net[i].kind = "test"
    /\ IF ~res.error /\ res.has
       THEN /\ testResult' = res.data
            /\ message' = IF res.data.success THEN "success" ELSE "error"
       ELSE /\ UNCHANGED testResult
            /\ message' = ""
    /\ testLoading' = FALSE
    /\ net' = Without(net, i)
    /\ emitted' = <<>>
    /\ last' = [op |-> "testResp", task |-> net[i], res |-> res]
    /\ UNCHANGED <<page, listVars, propVars, loading, formModel, optionVars,
                   dialogVars, testVisible, testScript, testForm>>

(***************************************************************************)
(* Responses of the server, and what the user types.                       *)
(***************************************************************************)
\* The data channel of a response that carries none.
NoData == <<>>

RuleTables ==
    {<<>>,
     <<[id |-> "r1", enabled |-> 1]>>,
     <<[id |-> "r1", enabled |-> 0], [id |-> "r2", enabled |-> 1]>>}

ScriptTables ==
    {<<>>,
     <<[id |-> "s1", script_content |-> "c1"]>>,
     <<[id |-> "s1", script_content |-> "c1"], [id |-> "s2", script_content |-> ""]>>}

Tables == IF page = "rules" THEN RuleTables ELSE ScriptTables

\* {data, error} of a list call.
ListResults ==
    {[error |-> TRUE, has |-> FALSE, data |-> NoData],
     [error |-> FALSE, has |-> FALSE, data |-> NoData],
     [error |-> FALSE, has |-> TRUE, data |-> [total |-> 0]]}
    \cup {[error |-> FALSE, has |-> TRUE, data |-> [list |-> t, total |-> Len(t)]] :
            t \in Tables}

\* groupsRes.data is an array of nodes (array) or a single node (object); the
\* one it is not is left empty.
NoNode == [none |-> TRUE]

\* A group tree of two levels whose root lacks a name.
SmallGroupTree ==
    [isArray |-> TRUE,
     array |-> <<[group |-> [id |-> "g1"],
                  children |-> <<[group |-> [id |-> "g1.1", name |-> "gn1.1"]]>>]>>,
     object |-> NoNode]

GoodOptions ==
    [scripts  |-> [rejected |-> FALSE, has |-> TRUE,
                   data |-> <<[id |-> "s1", name |-> "sn1"]>>],
     devices  |-> [rejected |-> FALSE, has |-> TRUE,
                   data |-> [list |-> <<[id |-> "d1", name |-> "dn1"]>>]],
     products |-> [rejected |-> FALSE, has |-> TRUE,
                   data |-> [list |-> <<[id |-> "p1"]>>]],
     groups   |-> [rejected |-> FALSE, has |-> TRUE, data |-> SmallGroupTree]]

\* A fetch that rejected, and one that resolved without data.
Rejected == [rejected |-> TRUE, has |-> FALSE, data |-> NoData]
Dataless == [rejected |-> FALSE, has |-> FALSE, data |-> NoData]

\* Outcomes of the four reference fetches of loadOptions: all good, or the
\* device fetch rejected.
OptionResults ==
    {GoodOptions, [GoodOptions EXCEPT !.devices = Rejected]}

\* Every outcome of the four fetches: each returns its data, returns none, or
\* rejects.
AllOptionResults ==
    {[f \in OptionFetches |->
         CASE o[f] = "good"     -> GoodOptions[f]
           [] o[f] = "dataless" -> Dataless
           [] o[f] = "rejected" -> Rejected] :
        o \in [OptionFetches -> {"good", "dataless", "rejected"}]}

\* Rule details a server may return.
RuleDetails ==
    {[id |-> "r1", name |-> "n1", script_id |-> "s1",
      sources |-> <<[source_type |-> 2, source_id |-> "p1"]>>,
      targets |-> <<[target_type |-> "mqtt",
                     config |-> [json |-> TRUE,
                                 pairs |-> << <<"broker", "b1">>, <<"topic", "t1">> >>]]>>],
     [id |-> "r2", name |-> "n1",
      sources |-> <<[source_type |-> 1, source_id |-> ""],
                    [source_type |-> 1, source_id |-> ""]>>,
      targets |-> <<[target_type |-> "http", config |-> Garbage]>>],
     [id |-> "r2", name |-> "n1"]}

\* Script details a server may return.
ScriptDetails ==
    {[id |-> "s1", name |-> "n1", script_content |-> "c1"],
     [id |-> "s2", name |-> "n1"]}

\* {data} of a detail call.
DetailResults(details) ==
    {[has |-> FALSE, data |-> NoData]} \cup {[has |-> TRUE, data |-> d] : d \in details}

\* {data, error} of a script test, or the call rejects (thrown) and there is none.
TestResults ==
    {[error |-> FALSE, has |-> FALSE, data |-> NoData, thrown |-> TRUE],
     [error |-> TRUE, has |-> FALSE, data |-> NoData],
     [error |-> FALSE, has |-> FALSE, data |-> NoData],
     [error |-> FALSE, has |-> TRUE,
      data |-> [success |-> TRUE, output |-> "out", error |-> ""]],
     [error |-> FALSE, has |-> TRUE,
      data |-> [success |-> FALSE, output |-> "", error |-> "err"]]}

\* What the user types in the forms.
RuleInputs == {<<"name", "">>, <<"name", "n1">>}
ScriptInputs == {<<"name", "">>, <<"name", "n1">>, <<"script_content", "">>,
                 <<"script_content", "c2">>}
FormInputs == IF page = "rules" THEN RuleInputs ELSE ScriptInputs
TestInputs == {<<"script_content", "">>, <<"script_content", "c2">>,
               <<"test_data", "t2">>}

(***************************************************************************)
(* Initial states.                                                         *)
(***************************************************************************)
InitDialog ==
    /\ currentTargetIndex = NullIndex
    /\ targetConfigVisible = FALSE
    /\ targetConfigType = "http"
    /\ httpConfig = HttpInitial
    /\ mqttConfig = MqttInitial
    /\ dlg = NoDlg

InitTester ==
    /\ testVisible = FALSE
    /\ testScript = [id |-> NullId]
    /\ testForm = [script_content |-> "", test_data |-> DefaultTestData]
    /\ testLoading = FALSE
    /\ testResult = NoResult

InitModal ==
    /\ visible = FALSE
    /\ modalType = "add"
    /\ editData = NullId
    /\ loading = FALSE
    /\ formModel = (IF page = "rules" THEN EmptyRuleForm ELSE EmptyScriptForm)
    /\ scriptOptions = <<>>
    /\ deviceOptions = <<>>
    /\ productOptions = <<>>
    /\ groupOptions = <<>>

InitQuery ==
    /\ pagination = [page |-> 1, pageSize |-> 10, itemCount |-> 0]
    /\ queryParams = (IF page = "rules" THEN [name |-> "", enabled |-> NoFilter]
                                        ELSE [name |-> ""])

\* A view as mounted: setup has run and onMounted has called getTableData.
InitMounted ==
    /\ page \in {"rules", "scripts"}
    /\ InitQuery
    /\ tableData = <<>>
    /\ listLoading = TRUE
    /\ net = <<ListTask(pagination, queryParams)>>
    /\ InitModal
    /\ InitDialog
    /\ InitTester
    /\ message = ""
    /\ emitted = <<>>
    /\ last = [op |-> "setup"]

\* A view whose first list fetch has returned the table t, with the requests
\* `tasks` in flight.
InitLoaded(p, t, tasks) ==
    /\ page = p
    /\ InitQuery
    /\ tableData = t
    /\ listLoading = FALSE
    /\ net = tasks
    /\ InitTester
    /\ message = ""
    /\ emitted = <<>>
    /\ last = [op |-> "setup"]

\* The rule editor opened on rule r1, its options and detail loaded, with the
\* targets ts.
InitEditing(ts) ==
    /\ InitLoaded("rules", <<[id |-> "r1", enabled |-> 1]>>, <<>>)
    /\ visible = TRUE
    /\ modalType = "edit"
    /\ editData = "r1"
    /\ loading = FALSE
    /\ formModel = [EmptyRuleForm EXCEPT !.name = "n1", !.targets = ts]
    /\ scriptOptions = <<>>
    /\ deviceOptions = <<>>
    /\ productOptions = <<>>
    /\ groupOptions = <<>>
    /\ InitDialog

(***************************************************************************)
(* Spec: a list view with its editor modal, from mount on.                 *)
(***************************************************************************)
Init == InitMounted

Next ==
    \/ \E i \in 1..MaxInflight : \E res \in ListResults : ListResp(i, res)
    \/ HandleAddRule
    \/ \E k \in 1..2 : HandleEditRule(k)
    \/ HandleAddScript
    \/ \E k \in 1..2 : HandleEditScript(k)
    \/ CloseModal
    \/ \E i \in 1..MaxInflight : \E res \in OptionResults : LoadOptionsDone(i, res)
    \/ \E i \in 1..MaxInflight : \E res \in DetailResults(RuleDetails) : RuleDetailResp(i, res)
    \/ \E i \in 1..MaxInflight : \E res \in DetailResults(ScriptDetails) : ScriptDetailResp(i, res)
    \/ \E kv \in FormInputs : SetFormField(kv[1], kv[2])
    \/ RuleHandleSubmit
    \/ ScriptHandleSubmit
    \/ \E i \in 1..MaxInflight : \E error \in BOOLEAN : SubmitResp(i, error)

Spec == Init /\ [][Next]_vars

(***************************************************************************)
(* SpecList: a list view alone: queries, paging, delete and the switch.    *)
(***************************************************************************)
InitList == InitMounted

NextList ==
    \/ \E i \in 1..MaxInflight : \E res \in ListResults : ListResp(i, res)
    \/ \E v \in {"", "q"} : SetQueryName(v)
    \/ HandleQuery
    \/ HandleReset
    \/ \E p \in 1..2 : OnChangePage(p)
    \/ \E id \in {"r1", "r2"} : HandleDeleteRule(id)
    \/ \E i \in 1..MaxInflight : \E error \in BOOLEAN : DeleteRuleResp(i, error)
    \/ \E id \in {"s1", "s2"} : HandleDeleteScript(id)
    \/ \E i \in 1..MaxInflight : \E error \in BOOLEAN : DeleteScriptResp(i, error)
    \/ \E k \in 1..2 : HandleToggleStatus(k)
    \/ \E i \in 1..MaxInflight : \E error \in BOOLEAN : ToggleStatusResp(i, error)

SpecList == InitList /\ [][NextList]_vars

(***************************************************************************)
(* SpecTester: the script tester over a loaded script list.                *)
(***************************************************************************)
InitTest ==
    /\ \E t \in ScriptTables \ {<<>>} : InitLoaded("scripts", t, <<>>)
    /\ InitModal
    /\ InitDialog

NextTest ==
    \/ \E k \in 1..2 : HandleTestScript(k)
    \/ CloseTestModal
    \/ \E kv \in TestInputs : SetTestField(kv[1], kv[2])
    \/ HandleTest
    \/ \E i \in 1..MaxInflight : \E res \in TestResults : TestResp(i, res)

SpecTester == InitTest /\ [][NextTest]_vars

(***************************************************************************)
(* SpecCodec: one target of any stored configuration is opened in the      *)
(* sub-dialog and saved or cancelled, with nothing typed.                  *)
(***************************************************************************)
InitCodec == \E t \in ServerTargets : InitEditing(<<t>>)

NextCodec ==
    \/ \E i \in 1..MaxTargets : EditTargetConfig(i)
    \/ SaveTargetConfig
    \/ CancelTargetConfig

SpecCodec == InitCodec /\ [][NextCodec]_vars

(***************************************************************************)
(* SpecTarget: the target list and the sub-dialog under every operation of *)
(* the user, over a few stored configurations.                             *)
(***************************************************************************)
InitTarget == \E ts \in SeqsUpTo(SampleTargets, MaxTargets) : InitEditing(ts)

NextTarget ==
    \/ AddTarget
    \/ \E i \in 1..MaxTargets : RemoveTarget(i)
    \/ \E i \in 1..MaxTargets : EditTargetConfig(i)
    \/ SaveTargetConfig
    \/ CancelTargetConfig
    \/ \E t \in {"http", "mqtt"} : SetTargetConfigType(t)
    \/ \E kv \in HttpInputs : SetHttpField(kv[1], kv[2])
    \/ \E kv \in MqttInputs : SetMqttField(kv[1], kv[2])

SpecTarget == InitTarget /\ [][NextTarget]_vars

(***************************************************************************)
(* SpecSession: sessions of the rule editor over a loaded rule list: the   *)
(* modal is opened for a new rule or for a row, closed and opened again,   *)
(* while the option and detail responses arrive and the user works on the  *)
(* target list and in the sub-dialog.                                      *)
(***************************************************************************)
InitSession ==
    /\ InitLoaded("rules", <<[id |-> "r1", enabled |-> 1], [id |-> "r2", enabled |-> 0]>>,
                  <<>>)
    /\ InitModal
    /\ InitDialog

NextSession ==
    \/ HandleAddRule
    \/ \E k \in 1..2 : HandleEditRule(k)
    \/ CloseModal
    \/ \E i \in 1..MaxInflight : \E res \in OptionResults : LoadOptionsDone(i, res)
    \/ \E i \in 1..MaxInflight : \E res \in DetailResults(RuleDetails) : RuleDetailResp(i, res)
    \/ AddTarget
    \/ \E i \in 1..MaxTargets : RemoveTarget(i)
    \/ \E i \in 1..MaxTargets : EditTargetConfig(i)
    \/ SaveTargetConfig
    \/ CancelTargetConfig

SpecSession == InitSession /\ [][NextSession]_vars

(***************************************************************************)
(* SpecOptions: the rule editor is opened and closed again and again, and  *)
(* each of the four reference fetches returns data, returns none or        *)
(* rejects.                                                                *)
(***************************************************************************)
NextOptions ==
    \/ HandleAddRule
    \/ HandleEditRule(1)
    \/ CloseModal
    \/ \E i \in 1..MaxInflight : \E res \in AllOptionResults : LoadOptionsDone(i, res)
    \/ \E i \in 1..MaxInflight :
          \E res \in DetailResults({d \in RuleDetails : d.id = "r1"}) : RuleDetailResp(i, res)

SpecOptions == InitSession /\ [][NextOptions]_vars

(***************************************************************************)
(* SpecLists: the source list and the target list of a rule being edited,  *)
(* whatever lists its detail carried.                                      *)
(***************************************************************************)
InitLists ==
    LET SampleSources == {[source_type |-> 1, source_id |-> "d1"],
                          [source_type |-> 2, source_id |-> ""],
                          [source_type |-> 3, source_id |-> "g1.1"]}
    IN  /\ InitLoaded("rules", <<[id |-> "r1", enabled |-> 1]>>, <<>>)
        /\ visible = TRUE
        /\ modalType = "edit"
        /\ editData = "r1"
        /\ loading = FALSE
        /\ \E ss \in SeqsUpTo(SampleSources, MaxSources) :
           \E ts \in SeqsUpTo(SampleTargets, MaxTargets) :
              formModel = [EmptyRuleForm EXCEPT !.name = "n1", !.sources = ss,
                                                !.targets = ts]
        /\ scriptOptions = ScriptItemOptions(GoodOptions.scripts.data)
        /\ deviceOptions = ItemOptions(GoodOptions.devices.data.list)
        /\ productOptions = ItemOptions(GoodOptions.products.data.list)
        /\ groupOptions = flattenGroups(GroupRoots(GoodOptions.groups.data), <<>>)
        /\ InitDialog

NextLists ==
    \/ AddSource
    \/ \E i \in 1..MaxSources : RemoveSource(i)
    \/ AddTarget
    \/ \E i \in 1..MaxTargets : RemoveTarget(i)

SpecLists == InitLists /\ [][NextLists]_vars

(***************************************************************************)
(* SpecSources: the rows of the source list of a rule that has no source   *)
(* yet: rows are added and removed, their type and id selected, and the    *)
(* rule is submitted.                                                      *)
(***************************************************************************)
NextSources ==
    \/ AddSource
    \/ \E i \in 1..MaxSources : RemoveSource(i)
    \/ \E i \in 1..MaxSources : \E t \in 1..3 : SetSourceType(i, t)
    \/ \E i \in 1..MaxSources : \E o \in 1..2 : SetSourceId(i, o)
    \/ RuleHandleSubmit

InitSources ==
    /\ InitLists
    /\ formModel.sources = <<>>
    /\ formModel.targets = <<>>

SpecSources == InitSources /\ [][NextSources]_vars

(***************************************************************************)
(* SpecView: a whole view, rules or scripts: its list with delete and      *)
(* switch, its editor and, for scripts, its tester.                        *)
(***************************************************************************)
NextView ==
    \/ \E i \in 1..MaxInflight : \E res \in ListResults : ListResp(i, res)
    \/ HandleQuery
    \/ \E id \in {"r1"} : HandleDeleteRule(id)
    \/ \E i \in 1..MaxInflight : \E error \in BOOLEAN : DeleteRuleResp(i, error)
    \/ \E id \in {"s1"} : HandleDeleteScript(id)
    \/ \E i \in 1..MaxInflight : \E error \in BOOLEAN : DeleteScriptResp(i, error)
    \/ \E k \in 1..2 : HandleToggleStatus(k)
    \/ \E i \in 1..MaxInflight : \E error \in BOOLEAN : ToggleStatusResp(i, error)
    \/ HandleAddRule
    \/ HandleAddScript
    \/ SetFormField("name", "n1")
    \/ HandleEditRule(1)
    \/ HandleEditScript(1)
    \/ CloseModal
    \/ \E i \in 1..MaxInflight : \E res \in OptionResults : LoadOptionsDone(i, res)
    \/ \E i \in 1..MaxInflight : \E res \in DetailResults({d \in RuleDetails : d.id = "r1"}) : RuleDetailResp(i, res)
    \/ \E i \in 1..MaxInflight : \E res \in DetailResults({d \in ScriptDetails : d.id = "s1"}) : ScriptDetailResp(i, res)
    \/ RuleHandleSubmit
    \/ ScriptHandleSubmit
    \/ \E i \in 1..MaxInflight : \E error \in BOOLEAN : SubmitResp(i, error)
    \/ HandleTestScript(1)
    \/ CloseTestModal
    \/ HandleTest
    \/ \E i \in 1..MaxInflight : \E res \in TestResults : TestResp(i, res)

SpecView == InitMounted /\ [][NextView]_vars

(***************************************************************************)
(* SpecFlatten: the rule editor opened for a new rule receives any group   *)
(* tree of at most MaxNodes nodes from deviceGroupTree.                    *)
(***************************************************************************)
\* What a node of the tree may carry: id and name, only a name, only an id.
NodeKinds == {"ok", "noId", "noName"}

\* The ordered forests, and the trees, of n nodes, each node of some kind.
RECURSIVE ForestsOf(_), TreesOf(_)
ForestsOf(n) ==
    IF n = 0 THEN {<<>>}
    ELSE UNION {{<<first>> \o rest : first \in TreesOf(k), rest \in ForestsOf(n - k)} :
                  k \in 1..n}

TreesOf(n) == {[kind |-> c, children |-> f] : c \in NodeKinds, f \in ForestsOf(n - 1)}

\* The text that names a path from the roots: "2.1" is the first child of the
\* second root.
RECURSIVE PathName(_)
PathName(path) ==
    IF Len(path) = 1 THEN ToString(path[1])
    ELSE PathName(SubSeq(path, 1, Len(path) - 1)) \o "." \o ToString(path[Len(path)])

\* The group of a node at `path`: the name of the path serves as id and as
\* name, so that every node is told from every other.
GroupAt(kind, path) ==
    CASE kind = "ok"     -> [id |-> PathName(path), name |-> PathName(path)]
      [] kind = "noId"   -> [name |-> PathName(path)]
      [] kind = "noName" -> [id |-> PathName(path)]

\* The GroupTreeNode[] of a forest, each node labelled with its path from the roots.
RECURSIVE Labelled(_, _)
Labelled(forest, prefix) ==
    [k \in DOMAIN forest |->
        [group    |-> GroupAt(forest[k].kind, Append(prefix, k)),
         children |-> Labelled(forest[k].children, Append(prefix, k))]]

\* groupsRes.data: an array of roots, or a single root that is not in an array.
GroupTrees ==
    {[isArray |-> TRUE, array |-> Labelled(f, <<>>), object |-> NoNode] :
        f \in UNION {ForestsOf(n) : n \in 0..MaxNodes}}
    \cup {[isArray |-> FALSE, array |-> <<>>, object |-> Labelled(<<t>>, <<>>)[1]] :
            t \in UNION {TreesOf(n) : n \in 1..MaxNodes}}

FlattenResults ==
    {[GoodOptions EXCEPT !.groups = [rejected |-> FALSE, has |-> TRUE, data |-> g]] : g \in GroupTrees}
    \cup {[GoodOptions EXCEPT !.groups = Dataless]}

InitFlatten ==
    /\ InitLoaded("rules", <<[id |-> "r1", enabled |-> 1]>>, <<[kind |-> "options"]>>)
    /\ visible = TRUE
    /\ modalType = "add"
    /\ editData = NullId
    /\ loading = FALSE
    /\ formModel = EmptyRuleForm
    /\ scriptOptions = <<>>
    /\ deviceOptions = <<>>
    /\ productOptions = <<>>
    /\ groupOptions = <<>>
    /\ InitDialog

NextFlatten ==
    \/ \E i \in DOMAIN net :
          /\ net[i].kind = "options"
          /\ \E res \in FlattenResults : LoadOptionsDone(i, res)
    \/ \E kv \in RuleInputs : SetFormField(kv[1], kv[2])
    \/ CloseModal

SpecFlatten == InitFlatten /\ [][NextFlatten]_vars

(***************************************************************************)
(* The forwarding API: each wrapper hands one request to the transport     *)
(* (request.get, request.post, request.put, request.delete) and returns    *)
(* what the transport returns.                                             *)
(***************************************************************************)
\* request.get(url, {params}), request.post(url, data), request.put(url, data),
\* request.delete(url): the request the transport is handed.
RequestAsPost(method, url, body) == [method |-> "POST", url |-> url, body |-> body]

Request(method, url, body) == [method |-> method, url |-> url, body |-> body]

\* The request of the wrapper `api` called with `arg`: the body of each wrapper.
ApiRequest(api, arg) ==
    LET none == [none |-> TRUE]
    IN  CASE api = "getForwardingRules" ->
                Request("GET", "/data_forwarding/rules", [params |-> arg])
          [] api = "getForwardingRuleDetail" ->
                Request("GET", "/data_forwarding/rules/" \o arg, none)
          [] api = "createForwardingRule" ->
                Request("POST", "/data_forwarding/rules", [data |-> arg])
          [] api = "updateForwardingRule" ->
                Request("PUT", "/data_forwarding/rules", [data |-> arg])
          [] api = "updateForwardingRuleStatus" ->
                Request("PUT", "/data_forwarding/rules/status", [data |-> arg])
          [] api = "deleteForwardingRule" ->
                Request("DELETE", "/data_forwarding/rules/" \o arg, none)
          [] api = "getForwardingScripts" ->
                Request("GET", "/data_forwarding/scripts", [params |-> arg])
          [] api = "getAllForwardingScripts" ->
                Request("GET", "/data_forwarding/scripts/all", none)
          [] api = "getForwardingScriptDetail" ->
                Request("GET", "/data_forwarding/scripts/" \o arg, none)
          [] api = "createForwardingScript" ->
                Request("POST", "/data_forwarding/scripts", [data |-> arg])
          [] api = "updateForwardingScript" ->
                Request("PUT", "/data_forwarding/scripts", [data |-> arg])
          [] api = "deleteForwardingScript" ->
                Request("DELETE", "/data_forwarding/scripts/" \o arg, none)
          [] api = "testForwardingScript" ->
                Request("POST", "/data_forwarding/scripts/test", [data |-> arg])

\* Arguments the views call the wrappers with.
ApiInputs(api) ==
    CASE api \in {"getForwardingRules", "getForwardingScripts"} ->
            {[page |-> 1, page_size |-> 10], [page |-> 2, page_size |-> 10, name |-> "q"]}
      [] api \in {"getForwardingRuleDetail", "deleteForwardingRule"} -> {"r1", "r2"}
      [] api \in {"getForwardingScriptDetail", "deleteForwardingScript"} -> {"s1", "s2"}
      [] api = "createForwardingRule" -> {RuleSubmitData(EmptyRuleForm)}
      [] api = "updateForwardingRule" ->
            {RuleSubmitData(EmptyRuleForm) @@ [id |-> i] : i \in {"r1", "r2"}}
      [] api = "updateForwardingRuleStatus" ->
            {[id |-> "r1", enabled |-> e] : e \in {0, 1}}
      [] api = "getAllForwardingScripts" -> {[none |-> TRUE]}
      [] api = "createForwardingScript" -> {ScriptSubmitData(EmptyScriptForm)}
      [] api = "updateForwardingScript" ->
            {ScriptSubmitData(EmptyScriptForm) @@ [id |-> i] : i \in {"s1", "s2"}}
      [] api = "testForwardingScript" ->
            {[script_content |-> "c1", test_data |-> DefaultTestData]}

\* A wrapper is called: it calls the transport, once, and awaits it.
CallApi(api, arg) ==
    /\ CanIssue
    /\ net' = Append(net, [kind |-> "api", api |-> api, request |-> ApiRequest(api, arg)])
    /\ Quiet
    /\ last' = [op |-> "call", api |-> api, arg |-> arg]
    /\ UNCHANGED <<page, listVars, propVars, loading, formModel, optionVars,
                   dialogVars, testerVars>>

\* The transport settles with res and the wrapper returns it.
ApiReturn(i, res) ==
    /\ i \in DOMAIN net
    /\ net[i].kind = "api"
    /\ net' = Without(net, i)
    /\ Quiet
    /\ last' = [op |-> "return", api |-> net[i].api, res |-> res, returned |-> res]
    /\ UNCHANGED <<page, listVars, propVars, loading, formModel, optionVars,
                   dialogVars, testerVars>>

(***************************************************************************)
(* SpecApi: the wrappers called in any order, their calls overlapping, and  *)
(* the transport settling each call with an error, with data or without.   *)
(***************************************************************************)
NextApi ==
    \/ \E api \in {"getForwardingRules", "getForwardingRuleDetail", "createForwardingRule",
                   "updateForwardingRule", "updateForwardingRuleStatus",
                   "deleteForwardingRule", "getForwardingScripts",
                   "getAllForwardingScripts", "getForwardingScriptDetail",
                   "createForwardingScript", "updateForwardingScript",
                   "deleteForwardingScript", "testForwardingScript"} :
          \E arg \in ApiInputs(api) : CallApi(api, arg)
    \/ \E i \in 1..MaxInflight :
          \E res \in {[error |-> TRUE, has |-> FALSE], [error |-> FALSE, has |-> TRUE],
                      [error |-> FALSE, has |-> FALSE]} : ApiReturn(i, res)

SpecApi == InitSession /\ [][NextApi]_vars

(***************************************************************************)
(* Target-config codec: round trip and decode failure.                     *)
(***************************************************************************)
\* A parsed object that is a valid HTTPTargetConfig.
ValidHttp(config) ==
    /\ "url" \in DOMAIN config /\ config.url # ""
    /\ "method" \in DOMAIN config => config.method \in {"POST", "PUT", "GET"}
    /\ "timeout" \in DOMAIN config => config.timeout \in 1..120

\* A parsed object that is a valid MQTTTargetConfig.
ValidMqtt(config) ==
    /\ "broker" \in DOMAIN config /\ config.broker # ""
    /\ "topic" \in DOMAIN config /\ config.topic # ""
    /\ "port" \in DOMAIN config => config.port \in 1..65535
    /\ "qos" \in DOMAIN config => config.qos \in {0, 1, 2}

ValidTarget(target) ==
    /\ ~ParseThrows(target.config)
    /\ target.target_type \in {"http", "mqtt"}
    /\ IF target.target_type = "http"
       THEN ValidHttp(JSONparse(target.config))
       ELSE ValidMqtt(JSONparse(target.config))

\* saveTargetConfig has just written back the target editTargetConfig opened,
\* and nothing was typed in between.
SavedUnchanged ==
    /\ last.op = "saveTargetConfig"
    /\ currentTargetIndex = NullIndex
    /\ dlg.index # NullIndex
    /\ dlg.touched = {}

\* C1: a valid HTTP or MQTT target configuration that is opened with
\* editTargetConfig and saved unchanged with saveTargetConfig decodes to the
\* original value for every field it had.
C1_RoundTrip ==
    (SavedUnchanged /\ ValidTarget(dlg.target)) =>
        LET before == JSONparse(dlg.target.config)
            saved  == formModel.targets[dlg.index]
            after  == JSONparse(saved.config)
        IN  /\ saved.target_type = dlg.target.target_type
            /\ \A k \in DOMAIN before : k \in DOMAIN after /\ after[k] = before[k]

\* C2: a target whose config is not valid JSON is summarised as "-", and
\* editTargetConfig on it leaves the sub-dialog holding the default
\* configuration of the target's type, whatever was configured before.
C2_InvalidJsonGivesDefaults ==
    /\ \A i \in DOMAIN formModel.targets :
          ParseThrows(formModel.targets[i].config)
              => getTargetSummary(formModel.targets[i]) = <<"-">>
    /\ (last.op = "editTargetConfig" /\ ParseThrows(dlg.target.config)) =>
          /\ targetConfigVisible
          /\ IF dlg.target.target_type = "http"
             THEN httpConfig = [url |-> "", method |-> "POST", headers |-> <<>>,
                                secret |-> "", timeout |-> 30]
             ELSE mqttConfig = [broker |-> "", port |-> 1883, topic |-> "",
                                username |-> "", password |-> "", client_id |-> "",
                                qos |-> 1]

(***************************************************************************)
(* Submitting and testing with empty required fields.                      *)
(***************************************************************************)
\* C3: when handleSubmit of the rule editor runs while the name of the form
\* is empty, no create or update request is issued, in an add session and in
\* an edit session alike and whatever the sources and targets are.
C3_EmptyNameIssuesNothing ==
    [][(last'.op = "handleSubmit" /\ page = "rules" /\ formModel.name = "")
          => net' = net]_vars

C3_Witness ==
    /\ last.op = "handleSubmit"
    /\ page = "rules"
    /\ formModel.name = ""
    /\ modalType = "edit"
    /\ formModel.sources # <<>>
    /\ formModel.targets # <<>>
    /\ \A i \in DOMAIN net : net[i].kind \notin {"create", "update"}

\* C4: when handleTest runs while script_content is empty, no test request is
\* issued, a warning is shown, and loading and testResult stay as they were.
C4_EmptyScriptWarns ==
    [][(last'.op = "handleTest" /\ testForm.script_content = "")
          => /\ net' = net
             /\ message' = "warning"
             /\ testLoading' = testLoading
             /\ testResult' = testResult]_vars

C4_Witness ==
    /\ last.op = "handleTest"
    /\ testForm.script_content = ""
    /\ message = "warning"
    /\ testResult # NoResult
    /\ net = <<>>

(***************************************************************************)
(* The switch and the delete of the list views.                            *)
(***************************************************************************)
\* The number of requests of the kinds K among the tasks.
Count(tasks, K) == Cardinality({i \in DOMAIN tasks : tasks[i].kind \in K})

\* The enabled values the table displays for the rule id.
Displayed(table, id) == {table[k].enabled : k \in {j \in DOMAIN table : table[j].id = id}}

\* Each click of the switch of a row issues one status call, for the id of the
\* row and with the opposite of the value the row shows.
ToggleIssuesOpposite ==
    last'.op = "handleToggleStatus" =>
        LET row == tableData[last'.row] IN
        /\ Len(net') = Len(net) + 1
        /\ SubSeq(net', 1, Len(net)) = net
        /\ net'[Len(net')].kind = "status"
        /\ net'[Len(net')].params =
              [id |-> row.id, enabled |-> IF row.enabled = 1 THEN 0 ELSE 1]

\* C5: each toggle issues exactly one status call with the opposite value,
\* and the value displayed for the rule changes if and only if that call
\* returns without error.
C5_FlipsIffSuccess ==
    [][/\ ToggleIssuesOpposite
       /\ (last'.op = "toggleStatusResp"
              /\ Displayed(tableData, last'.task.params.id) # {}) =>
             LET id == last'.task.params.id IN
             (Displayed(tableData', id) # Displayed(tableData, id)) <=> ~last'.error]_vars

\* C6: each confirmed delete issues exactly one delete request; when it
\* succeeds exactly one list fetch follows, and when it fails no list fetch
\* is issued and the table is unchanged.
C6_DeleteThenRefresh ==
    [][/\ last'.op = "handleDelete" =>
             /\ Len(net') = Len(net) + 1
             /\ SubSeq(net', 1, Len(net)) = net
             /\ net'[Len(net')] =
                   [kind |-> IF page = "rules" THEN "deleteRule" ELSE "deleteScript",
                    id |-> last'.id]
       /\ last'.op = "deleteResp" =>
             /\ Count(net', {"deleteRule", "deleteScript"})
                   = Count(net, {"deleteRule", "deleteScript"}) - 1
             /\ tableData' = tableData
             /\ IF last'.error
                THEN Count(net', {"list"}) = Count(net, {"list"})
                ELSE /\ Count(net', {"list"}) = Count(net, {"list"}) + 1
                     /\ net'[Len(net')].kind = "list"]_vars

C6_Witness ==
    /\ last.op = "deleteResp"
    /\ ~last.error
    /\ Count(net, {"list"}) = 1
    /\ listLoading

(***************************************************************************)
(* flattenGroups.                                                          *)
(***************************************************************************)
\* The paths, by position from the roots, of the nodes of a forest that have
\* both id and name.
RECURSIVE Listed(_, _)
Listed(nodes, prefix) ==
    UNION {(IF HasIdAndName(nodes[k].group) THEN {Append(prefix, k)} ELSE {})
           \cup Listed(nodes[k].children, Append(prefix, k)) : k \in DOMAIN nodes}

\* The path p comes before the path q in pre-order: p is an ancestor of q, or
\* at the first place where they part p takes the earlier sibling.
Before(p, q) ==
    \/ Len(p) < Len(q) /\ SubSeq(q, 1, Len(p)) = p
    \/ \E k \in 1..Len(p) :
          /\ k <= Len(q)
          /\ SubSeq(p, 1, k - 1) = SubSeq(q, 1, k - 1)
          /\ p[k] < q[k]

\* C7: flattenGroups returns exactly the nodes that have both id and name,
\* each once, in depth-first pre-order; a node without id or name is left out
\* and the nodes below it are still listed.
C7_FlattenPreOrder ==
    (last.op = "loadOptions" /\ ~AnyRejected(last.res) /\ last.res.groups.has) =>
        LET roots == GroupRoots(last.res.groups.data)
            paths == Listed(roots, <<>>)
        IN  /\ Len(groupOptions) = Cardinality(paths)
            /\ \A p \in paths : \E i \in DOMAIN groupOptions :
                  groupOptions[i] = [label |-> PathName(p), value |-> PathName(p)]
            /\ \A p, q \in paths : \A i, j \in DOMAIN groupOptions :
                  (/\ groupOptions[i].value = PathName(p)
                   /\ groupOptions[j].value = PathName(q)
                   /\ Before(p, q)) => i < j

C7_Witness ==
    /\ last.op = "loadOptions"
    /\ last.res.groups.has
    /\ LET roots == GroupRoots(last.res.groups.data) IN
        /\ Len(roots) = 2
        /\ ~HasIdAndName(roots[1].group)
        /\ Len(roots[1].children) = 1
        /\ Len(roots[1].children[1].children) = 1
    /\ Len(groupOptions) = 3

(***************************************************************************)
(* The submit of the editors.                                              *)
(***************************************************************************)
\* handleSubmit has just issued its request.
Submitted == last.op = "handleSubmit" /\ last.valid /\ net # <<>>

\* C8: the body a rule submit sends carries the sources and targets of the
\* form as they are; a detail response sets the form's sources and targets to
\* the lists it carries; so a rule read back from a server that stored the
\* body sent shows the sources and targets that were sent.
C8_ListsPassUnaltered ==
    /\ (Submitted /\ page = "rules") =>
          LET body == net[Len(net)].body IN
          /\ body.sources = formModel.sources
          /\ body.targets = formModel.targets
          /\ RuleFormOf([id |-> "r1"] @@ body).sources = formModel.sources
          /\ RuleFormOf([id |-> "r1"] @@ body).targets = formModel.targets
    /\ (last.op = "loadEditData" /\ page = "rules" /\ last.res.has) =>
          /\ formModel.sources = (IF "sources" \in DOMAIN last.res.data
                                  THEN last.res.data.sources ELSE <<>>)
          /\ formModel.targets = (IF "targets" \in DOMAIN last.res.data
                                  THEN last.res.data.targets ELSE <<>>)

C8_Witness ==
    /\ Submitted
    /\ page = "rules"
    /\ net[Len(net)].body.sources = <<NewSource, NewSource>>
    /\ net[Len(net)].body.targets # <<>>

\* C9: a submit whose call succeeds emits 'success' once and then closes the
\* modal; a submit whose call returns an error emits no 'success', does not
\* close the modal, leaves the form as it is, and sets loading to false.
C9_SuccessClosesErrorStays ==
    [][last'.op = "submitResp" =>
          IF ~last'.error
          THEN /\ emitted' = <<"success", "update:visible">>
               /\ ~visible'
          ELSE /\ \A i \in DOMAIN emitted' : emitted'[i] # "success"
               /\ visible' = visible
               /\ formModel' = formModel
               /\ ~loading']_vars

C9_Witness ==
    /\ last.op = "submitResp"
    /\ last.error
    /\ visible
    /\ ~loading
    /\ formModel.name # ""

\* C10: a submit in an edit session issues an update carrying the id of the
\* row being edited, a submit in an add session issues a create whose body
\* has no id.
C10_RoutesByMode ==
    Submitted =>
        LET task == net[Len(net)] IN
        /\ task.entity = (IF page = "rules" THEN "rule" ELSE "script")
        /\ modalType = "edit" =>
              /\ task.kind = "update"
              /\ editData # NullId
              /\ "id" \in DOMAIN task.body /\ task.body.id = editData
        /\ modalType = "add" =>
              /\ task.kind = "create"
              /\ "id" \notin DOMAIN task.body

C10_Witness ==
    /\ Submitted
    /\ modalType = "edit"
    /\ net[Len(net)].kind = "update"
    /\ net[Len(net)].body.id = "r2"

(***************************************************************************)
(* The target list and the sub-dialog.                                     *)
(***************************************************************************)
\* The encoding of the configuration the sub-dialog shows.
ActiveEncoding ==
    IF targetConfigType = "http" THEN JSONstringify(HttpKeys, httpConfig)
                                 ELSE JSONstringify(MqttKeys, mqttConfig)

\* C11: saveTargetConfig sets the config and target_type of the target at the
\* recorded index to the encoding of the active configuration and the type of
\* the sub-dialog, leaves every other target, the sources and the scalar
\* fields as they are, closes the sub-dialog and clears the recorded index;
\* with no index recorded it changes nothing.
C11_SaveFrame ==
    [][last'.op = "saveTargetConfig" =>
          IF currentTargetIndex = NullIndex
          THEN UNCHANGED <<formModel, currentTargetIndex, targetConfigVisible,
                           targetConfigType, httpConfig, mqttConfig>>
          ELSE /\ DOMAIN formModel'.targets = DOMAIN formModel.targets
               /\ \A i \in DOMAIN formModel.targets :
                     formModel'.targets[i] =
                        IF i = currentTargetIndex
                        THEN [target_type |-> targetConfigType, config |-> ActiveEncoding]
                        ELSE formModel.targets[i]
               /\ \A k \in DOMAIN formModel \ {"targets"} : formModel'[k] = formModel[k]
               /\ ~targetConfigVisible'
               /\ currentTargetIndex' = NullIndex]_vars

\* The config of the target parses and has the fields of the schema its
\* target_type names, and none of the other schema.
WellFormed(target) ==
    /\ ~ParseThrows(target.config)
    /\ LET keys == DOMAIN JSONparse(target.config) IN
       IF target.target_type = "http"
       THEN "url" \in keys /\ keys \cap {"broker", "topic"} = {}
       ELSE target.target_type = "mqtt" /\ {"broker", "topic"} \subseteq keys
            /\ "url" \notin keys

\* C12: the target addTarget appends and the target saveTargetConfig writes
\* have a config that parses and carries the fields of the schema of their own
\* target_type only; no other operation of the target list or of the
\* sub-dialog writes a target.
C12_ConfigMatchesType ==
    [][LET old == formModel.targets
           new == formModel'.targets
       IN  /\ last'.op = "addTarget" => WellFormed(new[Len(new)])
           /\ (last'.op = "saveTargetConfig" /\ currentTargetIndex \in DOMAIN old) =>
                 /\ WellFormed(new[currentTargetIndex])
                 /\ \A i \in DOMAIN old \ {currentTargetIndex} : new[i] = old[i]
           /\ last'.op \in {"removeTarget", "editTargetConfig", "cancelTargetConfig",
                            "input"} =>
                 \A i \in DOMAIN new : \E j \in DOMAIN old : new[i] = old[j]]_vars

C12_Witness ==
    /\ last.op = "saveTargetConfig"
    /\ currentTargetIndex = NullIndex
    /\ "target_type" \in dlg.touched
    /\ dlg.target.target_type = "http"
    /\ ParseThrows(dlg.target.config)
    /\ formModel.targets[dlg.index].target_type = "mqtt"
    /\ WellFormed(formModel.targets[dlg.index])

(***************************************************************************)
(* loadOptions.                                                            *)
(***************************************************************************)
\* C13: when one of the four reference fetches rejects, loadOptions changes
\* none of the four option lists and lets no exception escape: the watcher
\* goes on to load the edit data in an edit session and to reset the form in
\* an add session.
C13_AllOrNothing ==
    [][(last'.op = "loadOptions" /\ AnyRejected(last'.res)) =>
          /\ UNCHANGED <<scriptOptions, deviceOptions, productOptions, groupOptions>>
          /\ IF modalType = "edit"
             THEN /\ Len(net') = Len(net)
                  /\ net'[Len(net')] = [kind |-> "ruleDetail", id |-> editData]
                  /\ Count(net', {"options"}) = Count(net, {"options"}) - 1
                  /\ loading'
             ELSE /\ formModel' = EmptyRuleForm
                  /\ Len(net') = Len(net) - 1]_vars

C13_Witness ==
    /\ last.op = "loadOptions"
    /\ last.res.groups.rejected
    /\ ~last.res.scripts.rejected /\ last.res.scripts.has
    /\ ~last.res.devices.rejected /\ last.res.devices.has
    /\ scriptOptions # <<>>
    /\ deviceOptions = <<>>
    /\ modalType = "edit"
    /\ net # <<>> /\ net[Len(net)].kind = "ruleDetail"

(***************************************************************************)
(* The source list and the target list.                                    *)
(***************************************************************************)
\* The list `new` is the list `old` with `x` put after its last element.
Appended(old, new, x) ==
    /\ Len(new) = Len(old) + 1
    /\ \A k \in DOMAIN old : new[k] = old[k]
    /\ new[Len(new)] = x

\* The list `new` is the list `old` without its i-th element.
Removed(old, new, i) ==
    /\ Len(new) = Len(old) - 1
    /\ \A k \in DOMAIN new : new[k] = IF k < i THEN old[k] ELSE old[k + 1]

\* All of the form but the list named `list` stays as it is.
OnlyChanges(list) == \A k \in DOMAIN formModel \ {list} : formModel'[k] = formModel[k]

C15_CreateOpensEmpty ==
    [][/\ (last'.op = "loadOptions" /\ modalType = "add") =>
             formModel' = [name |-> "", description |-> "", script_id |-> NullId,
                           remark |-> "", sources |-> <<>>, targets |-> <<>>]
       /\ (last'.op = "handleAdd" /\ page = "scripts") =>
             formModel' = [name |-> "", description |-> "",
                           script_content |-> DefaultScriptContent, remark |-> ""]]_vars

\* A create session of the rule editor that has finished opening with its
\* option lists loaded.
C15_Witness ==
    /\ last.op = "loadOptions"
    /\ modalType = "add"
    /\ visible
    /\ formModel = EmptyRuleForm
    /\ scriptOptions # <<>>

(***************************************************************************)
(* Submitting a script with empty required fields.                         *)
(***************************************************************************)
\* C16: when handleSubmit of the script editor runs while the name or the
\* script_content of the form is empty, no create or update request is issued
\* (no request at all: the requests in flight stay as they were).
C16_EmptyScriptIssuesNothing ==
    [][(/\ last'.op = "handleSubmit"
        /\ page = "scripts"
        /\ (formModel.name = "" \/ formModel.script_content = ""))
          => net' = net]_vars

\* A submit of a named script without content, in an edit session.
C16_Witness ==
    /\ last.op = "handleSubmit"
    /\ page = "scripts"
    /\ modalType = "edit"
    /\ formModel.name # ""
    /\ formModel.script_content = ""
    /\ \A i \in DOMAIN net : net[i].kind \notin {"create", "update"}

(***************************************************************************)
(* The result of a script test.                                            *)
(***************************************************************************)
\* C17: a test response that carries data becomes the test result, with
\* success true and with success false alike; a response that reports an error
\* changes no result; an invocation with a script adds exactly one test request
\* to the requests in flight and its continuation adds none.
C17_ResultStored ==
    [][/\ (last'.op = "testResp" /\ ~last'.res.error /\ last'.res.has) =>
             testResult' = last'.res.data
       /\ (last'.op = "testResp" /\ last'.res.error) =>
             testResult' = testResult
       /\ last'.op = "testResp" =>
             /\ Len(net') = Len(net) - 1
             /\ Count(net', {"test"}) = Count(net, {"test"}) - 1
       /\ (last'.op = "handleTest" /\ testForm.script_content # "") =>
             /\ Len(net') = Len(net) + 1
             /\ Count(net', {"test"}) = Count(net, {"test"}) + 1]_vars

\* The result of a script that failed is on display.
C17_Witness ==
    /\ last.op = "testResp"
    /\ ~last.res.error
    /\ testResult = [success |-> FALSE, output |-> "", error |-> "err"]
    /\ net = <<>>

(***************************************************************************)
(* What an error of the server leaves behind.                              *)
(***************************************************************************)
\* What the user sees of the lists and of the form.
ShownButResult ==
    <<tableData, pagination.itemCount, formModel, scriptOptions, deviceOptions,
      productOptions, groupOptions>>

\* The continuation of a call to the server that runs on an error of the call.
ErrorStep ==
    \/ last'.op = "listResp" /\ last'.res.error
    \/ last'.op = "deleteResp" /\ last'.error
    \/ last'.op = "toggleStatusResp" /\ last'.error
    \/ last'.op = "submitResp" /\ last'.error
    \/ last'.op = "loadEditData" /\ ~last'.res.has
    \/ last'.op = "testResp" /\ last'.res.error

\* The step of a handler that issues its call to the server.
StartStep ==
    \/ last'.op \in {"handleQuery", "handleDelete", "handleToggleStatus", "handleSubmit",
                     "handleTest"}
    \/ last'.op = "handleEdit" /\ page = "scripts"

\* No step of an operation on the server that ends in an error changes
\* what is shown of the lists and of the form; the rule editor starts its
\* detail load in the continuation of loadOptions, which leaves the form alone.
ErrorKeepsListsAndForm ==
    /\ (ErrorStep \/ StartStep) => ShownButResult' = ShownButResult
    /\ (last'.op = "loadOptions" /\ modalType = "edit") =>
          /\ formModel' = formModel
          /\ tableData' = tableData
          /\ testResult' = testResult

\* C18 as stated: for a list fetch, a submit, a delete, a status toggle, a detail
\* load and a script test, neither the step that issues the call nor the
\* step that receives its error changes the table rows and total, the form
\* fields, the option lists or the displayed test result.
C18_ErrorLeavesState ==
    [][/\ ErrorKeepsListsAndForm
       /\ (ErrorStep \/ StartStep) => testResult' = testResult]_vars

\* C18 amended: the rows and total, the form fields and the option lists are
\* as stated; the displayed test result is left alone by every error step and
\* by every issuing step but that of handleTest, which clears it before its
\* request, so that no result is displayed after a test that failed in transport.
C18_ErrorKeepsAllButResult ==
    [][/\ ErrorKeepsListsAndForm
       /\ ErrorStep => testResult' = testResult
       /\ (StartStep /\ last'.op # "handleTest") => testResult' = testResult
       /\ (last'.op = "handleTest" /\ testForm.script_content # "") =>
             testResult' = NoResult
       /\ (last'.op = "testResp" /\ last'.res.error) => testResult' = NoResult]_vars

\* A test that failed in transport, back in the tester with nothing displayed.
C18_Witness ==
    /\ last.op = "testResp"
    /\ last.res.error
    /\ testVisible
    /\ ~testLoading
    /\ testResult = NoResult
    /\ tableData # <<>>

(***************************************************************************)
(* The refresh of the table after a mutation.                              *)
(***************************************************************************)
Mutations == {"create", "update", "deleteRule", "deleteScript"}

\* C19: the step that issues a create, update or delete call issues no list
\* fetch; the step that receives its error issues none either; the step that
\* receives its success takes the call off the requests in flight and issues one
\* list fetch with the current page and filters, leaving the rows as they are;
\* the response of a list fetch that carries data replaces the whole table by
\* the list of the response (by the empty table if it has none).
C19_RefreshAfterSuccess ==
    [][/\ last'.op \in {"handleDelete", "handleSubmit"} =>
             /\ Count(net', {"list"}) = Count(net, {"list"})
             /\ tableData' = tableData
       /\ (last'.op \in {"deleteResp", "submitResp"} /\ last'.error) =>
             /\ Count(net', {"list"}) = Count(net, {"list"})
             /\ tableData' = tableData
       /\ (last'.op \in {"deleteResp", "submitResp"} /\ ~last'.error) =>
             /\ last'.task.kind \in Mutations
             /\ Count(net', Mutations) = Count(net, Mutations) - 1
             /\ Len(net') = Len(net)
             /\ net'[Len(net')] = [kind |-> "list", params |-> ListParams(pagination, queryParams)]
             /\ Count(net', {"list"}) = Count(net, {"list"}) + 1
             /\ tableData' = tableData
       /\ (last'.op = "listResp" /\ ~last'.res.error /\ last'.res.has) =>
             tableData' = IF "list" \in DOMAIN last'.res.data
                          THEN last'.res.data.list ELSE <<>>]_vars

\* An update has succeeded: its call is gone and the refresh is in flight.
C19_Witness ==
    /\ last.op = "submitResp"
    /\ ~last.error
    /\ last.task.kind = "update"
    /\ Count(net, Mutations) = 0
    /\ Count(net, {"list"}) = 1
    /\ tableData # <<>>

(***************************************************************************)
(* The operation table of the forwarding API.                              *)
(***************************************************************************)
\* Method and path of each operation; {id} is the argument of the call.
OperationTable(api, arg) ==
    CASE api = "getForwardingRules" -> <<"GET", "/data_forwarding/rules">>
      [] api = "getForwardingRuleDetail" -> <<"GET", "/data_forwarding/rules/" \o arg>>
      [] api = "createForwardingRule" -> <<"POST", "/data_forwarding/rules">>
      [] api = "updateForwardingRule" -> <<"PUT", "/data_forwarding/rules">>
      [] api = "updateForwardingRuleStatus" -> <<"PUT", "/data_forwarding/rules/status">>
      [] api = "deleteForwardingRule" -> <<"DELETE", "/data_forwarding/rules/" \o arg>>
      [] api = "getForwardingScripts" -> <<"GET", "/data_forwarding/scripts">>
      [] api = "getAllForwardingScripts" -> <<"GET", "/data_forwarding/scripts/all">>
      [] api = "getForwardingScriptDetail" -> <<"GET", "/data_forwarding/scripts/" \o arg>>
      [] api = "createForwardingScript" -> <<"POST", "/data_forwarding/scripts">>
      [] api = "updateForwardingScript" -> <<"PUT", "/data_forwarding/scripts">>
      [] api = "deleteForwardingScript" -> <<"DELETE", "/data_forwarding/scripts/" \o arg>>
      [] api = "testForwardingScript" -> <<"POST", "/data_forwarding/scripts/test">>

\* What the request of an operation carries besides method and path: the query
\* parameters of a list, the body of a create, update, status or test call (an
\* update's body holds the id), nothing for a call that names its id in the path.
Carries(api, arg, body) ==
    CASE api \in {"getForwardingRules", "getForwardingScripts"} -> body = [params |-> arg]
      [] api \in {"createForwardingRule", "createForwardingScript",
                  "updateForwardingRuleStatus", "testForwardingScript"} ->
            body = [data |-> arg]
      [] api \in {"updateForwardingRule", "updateForwardingScript"} ->
            body = [data |-> arg] /\ "id" \in DOMAIN body.data
      [] OTHER -> DOMAIN body = {"none"}

\* C20: a call of a wrapper adds exactly one request to the requests in
\* flight, with the method and the path of the operation table and the
\* argument as parameters or body; when the transport settles, with an error
\* or without, the wrapper returns the transport's result itself and hands the
\* transport no further request.
C20_OneRequestPerCall ==
    [][/\ last'.op = "call" =>
             /\ Len(net') = Len(net) + 1
             /\ \A k \in DOMAIN net : net'[k] = net[k]
             /\ net'[Len(net')].api = last'.api
             /\ <<net'[Len(net')].request.method, net'[Len(net')].request.url>>
                   = OperationTable(last'.api, last'.arg)
             /\ Carries(last'.api, last'.arg, net'[Len(net')].request.body)
       /\ last'.op = "return" =>
             /\ Len(net') = Len(net) - 1
             /\ last'.returned = last'.res]_vars

\* An update of rule r2 has failed while a delete of r2 is still in flight.
C20_Witness ==
    /\ last.op = "return"
    /\ last.api = "updateForwardingRule"
    /\ last.res.error
    /\ Len(net) = 1
    /\ net[1].request = [method |-> "DELETE", url |-> "/data_forwarding/rules/r2",
                         body |-> [none |-> TRUE]]

(***************************************************************************)
(* Running the tester again.                                               *)
(***************************************************************************)
\* C21: the continuation of every handleTest that issued its request, on data
\* of a successful or failed script, on an error, on no data and on a call
\* that rejected, leaves loading false; handleTest clears testResult when
\* it issues its request and sets loading, and while loading is set no
\* result is displayed, so a result on display is that of the last
\* invocation's own response.
C21_TestCanBeRerun ==
    /\ [](testLoading => testResult = NoResult)
    /\ [][/\ last'.op = "testResp" =>
                /\ ~testLoading'
                /\ testResult' \in {NoResult, last'.res.data}
          /\ (last'.op = "handleTest" /\ testForm.script_content # "") =>
                /\ testLoading'
                /\ testResult' = NoResult]_vars

\* A test call has rejected after an earlier run had shown a result, and the
\* tester is ready for another run.
C21_Witness ==
    /\ last.op = "testResp"
    /\ "thrown" \in DOMAIN last.res
    /\ testVisible
    /\ ~testLoading
    /\ testResult = NoResult
    /\ testForm.script_content = "c2"

(***************************************************************************)
(* The sessions of the rule editor.                                        *)
(***************************************************************************)
\* The rule editor is open and its option lists are still being fetched.
Opening == page = "rules" /\ visible /\ Count(net, {"options"}) > 0

\* C22: in the rule editor a create or update call is issued only by
\* handleSubmit, in a session that is open and no longer Opening; a detail
\* request is issued only by the continuation of loadOptions; and the form is
\* reset or populated (changed by anything but the user's input) only by the
\* continuation of loadOptions or of the detail load that followed it.
C22_SessionOrder ==
    [][page = "rules" =>
          /\ Count(net', {"create", "update"}) > Count(net, {"create", "update"}) =>
                /\ last'.op = "handleSubmit"
                /\ visible
                /\ ~Opening
          /\ Count(net', {"ruleDetail"}) > Count(net, {"ruleDetail"}) =>
                last'.op = "loadOptions"
          /\ (formModel' # formModel /\ last'.op # "input") =>
                last'.op \in {"loadOptions", "loadEditData"}]_vars

(***************************************************************************)
(* What the sub-dialog writes into a target.                               *)
(***************************************************************************)
\* C23, for the targets whose config decodes (what the sub-dialog shows of a
\* config that does not decode is the subject of C2): when saveTargetConfig
\* writes the target editTargetConfig opened, every field of the written
\* config that the user did not type in this session of the sub-dialog has the
\* value the target's own previous config gives it (by the decoding of its own
\* type) or the default of the schema, with and without a change of the type
\* in the sub-dialog.
C23_OwnConfigOnly ==
    [][(/\ last'.op = "saveTargetConfig"
        /\ currentTargetIndex \in DOMAIN formModel.targets
        /\ ~ParseThrows(dlg.target.config)) =>
          LET http     == targetConfigType = "http"
              active   == IF http THEN httpConfig ELSE mqttConfig
              defaults == IF http THEN HttpInitial ELSE MqttInitial
              own      == IF dlg.target.target_type # targetConfigType
                          THEN defaults
                          ELSE IF http THEN AssignHttp(JSONparse(dlg.target.config))
                                       ELSE AssignMqtt(JSONparse(dlg.target.config))
          IN  /\ dlg.index = currentTargetIndex
              /\ \A k \in DOMAIN active \ dlg.touched :
                    active[k] \in {own[k], defaults[k]}]_vars

(***************************************************************************)
(* The identifiers of the sources of a submitted rule.                     *)
(***************************************************************************)
\* C24: every source of the body a rule submit sends has an empty source_id
\* or the value of an option of the list of its own source_type.
C24_SourceIdOfOwnType ==
    (Submitted /\ page = "rules") =>
        LET sources == net[Len(net)].body.sources IN
        \A i \in DOMAIN sources :
           \/ sources[i].source_id = ""
           \/ \E o \in DOMAIN getSourceOptions(sources[i].source_type) :
                 getSourceOptions(sources[i].source_type)[o].value = sources[i].source_id

(***************************************************************************)
(* Detail responses and the session they arrive in.                        *)
(***************************************************************************)
\* C25: a detail response that carries data is applied to the form of an open
\* editor only when the editor is in an edit session for the id the response
\* was requested for: never in a create session, never in an edit session
\* of another id.
C25_DetailInOwnSession ==
    [][(last'.op = "loadEditData" /\ last'.res.has /\ visible) =>
          /\ modalType = "edit"
          /\ editData = last'.task.id]_vars

(***************************************************************************)
(* What an update of a rule carries.                                       *)
(***************************************************************************)
\* C26: the body of an update issued for rule id X carries the sources and
\* the targets of a detail of X (the user edits neither list in these runs),
\* not those another rule's detail or a create session left in the form, and
\* not the empty lists of a form no detail has reached.
C26_UpdateCarriesOwnDetail ==
    (Submitted /\ page = "rules" /\ net[Len(net)].kind = "update") =>
        LET body == net[Len(net)].body IN
        \E d \in RuleDetails :
           /\ d.id = body.id
           /\ body.sources = OrObj(d, "sources", <<>>)
           /\ body.targets = OrObj(d, "targets", <<>>)

(***************************************************************************)
(* The recorded index of the target sub-dialog.                            *)
(***************************************************************************)
\* C27: in every state of the rule editor a recorded currentTargetIndex is
\* an index of the current target list, so saveTargetConfig finds a target
\* under it.
C27_IndexInRange ==
    currentTargetIndex # NullIndex =>
        currentTargetIndex \in 1..Len(formModel.targets)

(***************************************************************************)
(* Overlapping list fetches.                                               *)
(***************************************************************************)
\* C28: when the last pending list fetch resolves and its rows are put in the
\* table, the response is the one to the most recently issued request: the
\* page and page size it asked for are those the pagination holds, which
\* every handler that changes them sends in the same step.
C28_LatestRequestShown ==
    [][(/\ last'.op = "listResp"
        /\ ~last'.res.error /\ last'.res.has
        /\ Count(net', {"list"}) = 0) =>
          /\ last'.task.params.page = pagination'.page
          /\ last'.task.params.page_size = pagination'.pageSize]_vars

(***************************************************************************)
(* The loading flags and the requests they guard.                          *)
(***************************************************************************)
\* C29: the loading flag of the list screen is true exactly while a list
\* fetch is pending, and the loading flag of the editor exactly while a
\* detail load or a create or update call is pending.
C29_LoadingWhilePending ==
    /\ listLoading <=> Count(net, {"list"}) > 0
    /\ loading <=> Count(net, {"ruleDetail", "scriptDetail", "create", "update"}) > 0

====
